---- MODULE Spec2Model ----
(***************************************************************************)
(* The LilyPond lexer of frescobaldi_app/ly/lex/lilypond.py as a push-down *)
(* automaton: a stack of parser contexts, each an ordered table of token   *)
(* kinds, driven over an input text.                                       *)
(*                                                                         *)
(* The text is a sequence of atoms.  An atom is either one character       *)
(* ("{", "\"", "\\" = one backslash, "c" = one lowercase letter, "2" = a   *)
(* digit, "sp" = a blank) or one backslashed word ("\\score").  Offsets    *)
(* and token lengths are counted in atoms.  Every regular expression of    *)
(* the source is an operator that computes the length of its match at the  *)
(* cursor, look-ahead and word boundaries included.                        *)
(***************************************************************************)
EXTENDS Integers, Sequences, FiniteSets, TLC

VARIABLES text, pos, stack, tokens, status, classes, run, first

(* text, pos, stack, tokens, status: one run of the tokenizer.  classes: the
   argcount attribute of every parser class, the only state that outlives a
   run.  run, first: the number of the run over the text and what the
   first run produced. *)
vars == <<text, pos, stack, tokens, status, classes, run, first>>

(***************************************************************************)
(* Character classes of the atoms.                                         *)
(***************************************************************************)
Letters == {"c", "r", "x", "volta"}

Digits == {"2", "4"}

WordAtoms == Letters \cup Digits \cup {"_"}

BlockKeywords ==
    {"\\score", "\\book", "\\bookpart", "\\header", "\\paper", "\\layout",
     "\\midi", "\\with", "\\context"}

MarkupCommandNames == {"\\null", "\\bold", "\\italic", "\\raise", "\\beam", "\\pattern", "\\foo"}

InputModeNames == {"\\lyricmode", "\\chordmode", "\\notemode", "\\drummode", "\\figuremode"}

BackslashWords ==
    BlockKeywords \cup MarkupCommandNames \cup InputModeNames \cup
    {"\\markup", "\\markuplines", "\\repeat", "\\relative", "\\override",
     "\\set", "\\revert", "\\unset", "\\new", "\\change", "\\clef"}

(* atoms that MarkupWord's class [^{}"\\\s#%] excludes *)
MarkupWordStop == {"{", "}", "\"", "\\", "sp", "#", "%{", "%}", ""} \cup BackslashWords

(* atoms that LyricText's class [^\\\s\d~\"] excludes *)
LyricTextStop == {"\\", "sp", "~", "\"", ""} \cup Digits \cup BackslashWords

(***************************************************************************)
(* The lexicon (ly.words), consulted by the patterns.                      *)
(***************************************************************************)
lilypond_keywords ==
    BlockKeywords \cup InputModeNames \cup
    {"\\markup", "\\markuplines", "\\override", "\\set", "\\revert", "\\unset", "\\new", "\\change"}

lilypond_music_commands == {"\\relative", "\\repeat", "\\clef"}

repeat_types == {"volta"}

markupcommands_nargs ==
    [n \in 0..4 |->
        CASE n = 0 -> {"\\null"}
          [] n = 1 -> {"\\bold", "\\italic"}
          [] n = 2 -> {"\\raise"}
          [] n = 3 -> {"\\beam"}
          [] n = 4 -> {"\\pattern"}]

(***************************************************************************)
(* Reading the text.  i is the 1-based index of the atom at the cursor.    *)
(***************************************************************************)
At(t, i) == IF i \in 1..Len(t) THEN t[i] ELSE ""

RECURSIVE Run(_, _, _)
(* the number of consecutive atoms of the set S from index i on *)
Run(S, t, i) == IF At(t, i) \in S THEN 1 + Run(S, t, i + 1) ELSE 0

RECURSIVE RunNot(_, _, _)
(* the number of consecutive atoms outside the set S from index i on *)
RunNot(S, t, i) == IF At(t, i) \notin S THEN 1 + RunNot(S, t, i + 1) ELSE 0

(* rx = \\name\b : the word, then no word character *)
WordB(names, t, i) ==
    IF At(t, i) \in names /\ At(t, i + 1) \notin WordAtoms THEN 1 ELSE 0

(* rx = \\name(?![A-Za-z]) : the word, then no letter *)
WordL(names, t, i) ==
    IF At(t, i) \in names /\ At(t, i + 1) \notin Letters THEN 1 ELSE 0

(* rx = \\[A-Za-z]+(?![A-Za-z]) : a backslash and the longest run of letters *)
BackslashName(t, i) ==
    IF At(t, i) \in BackslashWords THEN 1 + Run(Letters, t, i + 1)
    ELSE IF At(t, i) = "\\" /\ Run(Letters, t, i + 1) > 0 THEN 1 + Run(Letters, t, i + 1)
    ELSE 0

RECURSIVE HyphenTail(_, _)
(* (-[A-Za-z]+)* *)
HyphenTail(t, i) ==
    IF At(t, i) = "-" /\ Run(Letters, t, i + 1) > 0
    THEN 1 + Run(Letters, t, i + 1) + HyphenTail(t, i + 1 + Run(Letters, t, i + 1))
    ELSE 0

(* a literal of two characters *)
Two(a, B, t, i) == IF At(t, i) = a /\ At(t, i + 1) \in B THEN 2 ELSE 0

One(S, t, i) == IF At(t, i) \in S /\ At(t, i) # "" THEN 1 ELSE 0

(* \d+(/\d+)? from index i; 0 when no digit *)
DigitsOptFraction(t, i) ==
    LET d == Run(Digits, t, i) IN
    IF d = 0 THEN 0
    ELSE IF At(t, i + d) = "/" /\ Run(Digits, t, i + d + 1) > 0
         THEN d + 1 + Run(Digits, t, i + d + 1)
         ELSE d

(* variant of StringQuoteEscape: only the escaped quote is an escape *)
StringQuoteEscape_rx_QuoteOnly(t, i) == Two("\\", {"\""}, t, i)

(* StringQuoteEscape.rx = \\[\\"] *)
StringQuoteEscape_rx(t, i) == Two("\\", {"\\", "\""}, t, i)

(***************************************************************************)
(* rx: the length of the match of a token kind's pattern at index i, or 0. *)
(* Patterns built from word lists of the lexicon that has no word among    *)
(* the atoms (articulations, contexts, grobs, properties, variables,       *)
(* clefs, units) match nothing here.                                       *)
(***************************************************************************)
rx(kind, t, i) ==
    CASE kind = "Space" -> Run({"sp"}, t, i)
      [] kind = "BlockCommentSpace" -> Run({"sp"}, t, i)
      [] kind = "BlockCommentStart" -> One({"%{"}, t, i)
      [] kind = "BlockCommentEnd" -> One({"%}"}, t, i)
      [] kind = "LineComment" ->
            IF At(t, i) \in {"%{", "%}"} THEN Len(t) - i + 1 ELSE 0
      [] kind \in {"StringQuotedStart", "StringQuotedEnd"} -> One({"\""}, t, i)
      [] kind = "StringQuoteEscape" -> StringQuoteEscape_rx(t, i)
      [] kind = "SchemeStart" -> One({"#", "$"}, t, i)
      [] kind = "Fraction" ->
            LET d == Run(Digits, t, i) IN
            IF d > 0 /\ At(t, i + d) = "/" /\ Run(Digits, t, i + d + 1) > 0
            THEN d + 1 + Run(Digits, t, i + d + 1) ELSE 0
      [] kind = "DecimalValue" ->
            LET m == IF At(t, i) = "-" THEN 1 ELSE 0
                d == Run(Digits, t, i + m) IN
            IF d = 0 THEN 0
            ELSE IF At(t, i + m + d) = "." /\ Run(Digits, t, i + m + d + 1) > 0
                 THEN m + d + 1 + Run(Digits, t, i + m + d + 1)
                 ELSE m + d
      [] kind \in {"OpenBracket", "SequentialStart", "OpenBracketMarkup"} -> One({"{"}, t, i)
      [] kind \in {"CloseBracket", "SequentialEnd", "CloseBracketMarkup"} -> One({"}"}, t, i)
      [] kind \in {"OpenSimultaneous", "SimultaneousStart"} -> Two("<", {"<"}, t, i)
      [] kind \in {"CloseSimultaneous", "SimultaneousEnd"} -> Two(">", {">"}, t, i)
      [] kind = "Dynamic" -> Two("\\", {"<", "!", ">"}, t, i)
      [] kind = "Skip" -> 0
      [] kind = "Rest" -> IF At(t, i) = "r" /\ At(t, i + 1) \notin Letters THEN 1 ELSE 0
      [] kind = "Note" -> Run(Letters, t, i)
      [] kind = "DurationStart" ->
            IF At(t, i) \in Digits /\ At(t, i + 1) \notin Digits THEN 1 ELSE 0
      [] kind \in {"Dot", "DotSetOverride"} -> One({"."}, t, i)
      [] kind = "Scaling" ->
            IF At(t, i) = "*"
               /\ DigitsOptFraction(t, i + 1 + Run({"sp"}, t, i + 1)) > 0
            THEN 1 + Run({"sp"}, t, i + 1)
                   + DigitsOptFraction(t, i + 1 + Run({"sp"}, t, i + 1))
            ELSE 0
      [] kind = "VoiceSeparator" -> Two("\\", {"\\"}, t, i)
      [] kind = "ChordStart" -> One({"<"}, t, i)
      [] kind = "ChordEnd" -> One({">"}, t, i)
      [] kind = "ErrorInChord" ->
            IF Two("-", {"_", ".", ">", "|", "+", "^", "-"}, t, i) > 0
               \/ Two("_", {"_", ".", ">", "|", "+", "^", "-"}, t, i) > 0
               \/ Two("^", {"_", ".", ">", "|", "+", "^", "-"}, t, i) > 0
               \/ Two("<", {"<"}, t, i) > 0
               \/ Two(">", {">"}, t, i) > 0
               \/ Two("\\", {"\\", "]", "[", "(", ")"}, t, i) > 0
            THEN 2 ELSE 0
      [] kind = "SlurStart" -> One({"("}, t, i)
      [] kind = "SlurEnd" -> One({")"}, t, i)
      [] kind = "PhrasingSlurStart" -> Two("\\", {"("}, t, i)
      [] kind = "PhrasingSlurEnd" -> Two("\\", {")"}, t, i)
      [] kind = "Tie" -> One({"~"}, t, i)
      [] kind = "BeamStart" -> One({"["}, t, i)
      [] kind = "BeamEnd" -> One({"]"}, t, i)
      [] kind = "LigatureStart" -> Two("\\", {"["}, t, i)
      [] kind = "LigatureEnd" -> Two("\\", {"]"}, t, i)
      [] kind = "Direction" -> One({"-", "_", "^"}, t, i)
      [] kind = "ScriptAbbreviation" -> One({"+", "|", ">", ".", "_", "^", "-"}, t, i)
      [] kind = "Keyword" -> WordL(lilypond_keywords, t, i)
      [] kind = "Command" -> WordL(lilypond_music_commands, t, i)
      [] kind = "UserCommand" -> BackslashName(t, i)
      [] kind = "Score" -> WordB({"\\score"}, t, i)
      [] kind = "MarkupScore" -> WordB({"\\score"}, t, i)
      [] kind = "Book" -> WordB({"\\book"}, t, i)
      [] kind = "BookPart" -> WordB({"\\bookpart"}, t, i)
      [] kind = "Paper" -> WordB({"\\paper"}, t, i)
      [] kind = "Header" -> WordB({"\\header"}, t, i)
      [] kind = "Layout" -> WordB({"\\layout"}, t, i)
      [] kind = "Midi" -> WordB({"\\midi"}, t, i)
      [] kind = "With" -> WordB({"\\with"}, t, i)
      [] kind \in {"LayoutContext", "Context"} -> WordB({"\\context"}, t, i)
      [] kind = "Markup" -> WordL({"\\markup"}, t, i)
      [] kind = "MarkupLines" -> WordL({"\\markuplines"}, t, i)
      [] kind = "MarkupCommand" ->
            IF BackslashName(t, i) > 0
            THEN BackslashName(t, i) + HyphenTail(t, i + BackslashName(t, i))
            ELSE 0
      [] kind = "MarkupWord" -> RunNot(MarkupWordStop, t, i)
      [] kind = "Repeat" -> WordL({"\\repeat"}, t, i)
      [] kind = "RepeatSpecifier" ->
            IF At(t, i) \in repeat_types
               /\ At(t, i - 1) \notin (WordAtoms \cup BackslashWords)
               /\ At(t, i + 1) \notin Letters
            THEN 1 ELSE 0
      [] kind = "RepeatStringSpecifier" ->
            IF At(t, i) = "\"" /\ At(t, i + 1) \in repeat_types /\ At(t, i + 2) = "\""
            THEN 3 ELSE 0
      [] kind = "RepeatCount" -> Run(Digits, t, i)
      [] kind = "Override" -> WordB({"\\override"}, t, i)
      [] kind = "Set" -> WordB({"\\set"}, t, i)
      [] kind = "Revert" -> WordB({"\\revert"}, t, i)
      [] kind = "Unset" -> WordB({"\\unset"}, t, i)
      [] kind = "New" -> WordB({"\\new"}, t, i)
      [] kind = "Change" -> WordB({"\\change"}, t, i)
      [] kind = "Clef" -> One({"\\clef"}, t, i)
      [] kind = "LyricMode" -> WordB({"\\lyricmode"}, t, i)
      [] kind = "NoteMode" -> WordB({"\\notemode"}, t, i)
      [] kind = "ChordMode" -> WordB({"\\chordmode"}, t, i)
      [] kind = "DrumMode" -> WordB({"\\drummode"}, t, i)
      [] kind = "FigureMode" -> WordB({"\\figuremode"}, t, i)
      [] kind = "LyricText" -> RunNot(LyricTextStop, t, i)
      [] kind = "LyricHyphen" -> Two("-", {"-"}, t, i)
      [] kind = "LyricExtender" -> Two("_", {"_"}, t, i)
      [] kind = "LyricSkip" -> One({"_"}, t, i)
      [] kind = "LyricTie" -> One({"~"}, t, i)
      [] kind \in {"Name", "NameLower"} -> Run(Letters, t, i)
      [] kind \in {"EqualSign", "EqualSignSetOverride"} -> One({"="}, t, i)
      [] kind \in {"Articulation", "ClefSpecifier", "Unit", "ContextName",
                   "BackSlashedContextName", "GrobName", "ContextProperty",
                   "PaperVariable", "HeaderVariable", "LayoutVariable"} -> 0

(***************************************************************************)
(* The item tables of the parsers, in declared order.                      *)
(***************************************************************************)
space_items == <<"Space", "BlockCommentStart", "LineComment">>

base_items == space_items \o <<"SchemeStart", "StringQuotedStart">>

command_items ==
    <<"Repeat", "Override", "Revert", "Set", "Unset", "New", "Context", "With",
      "Clef", "ChordMode", "DrumMode", "FigureMode", "LyricMode", "NoteMode",
      "Markup", "MarkupLines", "Keyword", "Command", "UserCommand">>

toplevel_base_items ==
    base_items \o <<"Fraction", "SequentialStart", "SimultaneousStart">> \o command_items

music_items ==
    base_items \o
    <<"Dynamic", "Skip", "Rest", "Note", "Fraction", "DurationStart",
      "VoiceSeparator", "SequentialStart", "SequentialEnd", "SimultaneousStart",
      "SimultaneousEnd", "ChordStart", "ContextName", "GrobName", "SlurStart",
      "SlurEnd", "PhrasingSlurStart", "PhrasingSlurEnd", "Tie", "BeamStart",
      "BeamEnd", "LigatureStart", "LigatureEnd", "Direction", "Articulation">>
    \o command_items

(* variant of music_chord_items: the two chord kinds are listed last *)
music_chord_items_Last == music_items \o <<"ErrorInChord", "ChordEnd">>

music_chord_items == <<"ErrorInChord", "ChordEnd">> \o music_items

ExpectModeItems == space_items \o <<"OpenBracket", "OpenSimultaneous">>

MusicParsers ==
    {"LilyPondParserMusic", "LilyPondParserChordMode", "LilyPondParserNoteMode",
     "LilyPondParserDrumMode", "LilyPondParserFigureMode"}

ExpectOpenBracketParsers ==
    {"LilyPondParserExpectScore", "LilyPondParserExpectBook",
     "LilyPondParserExpectBookPart", "LilyPondParserExpectPaper",
     "LilyPondParserExpectHeader", "LilyPondParserExpectLayout",
     "LilyPondParserExpectMidi", "LilyPondParserExpectWith",
     "LilyPondParserExpectContext"}

ExpectModeParsers ==
    {"LilyPondParserExpectChordMode", "LilyPondParserExpectNoteMode",
     "LilyPondParserExpectDrumMode", "LilyPondParserExpectFigureMode"}

items(p) ==
    CASE p = "LilyPondParserGlobal" ->
            <<"Book", "BookPart", "Score", "Markup", "MarkupLines", "Paper",
              "Header", "Layout">> \o toplevel_base_items \o <<"Name", "EqualSign">>
      [] p \in ExpectOpenBracketParsers -> space_items \o <<"OpenBracket">>
      [] p = "LilyPondParserScore" ->
            <<"CloseBracket", "Header", "Layout", "Midi", "With">> \o toplevel_base_items
      [] p = "LilyPondParserBook" ->
            <<"CloseBracket", "Markup", "MarkupLines", "BookPart", "Score",
              "Paper", "Header", "Layout">> \o toplevel_base_items
      [] p = "LilyPondParserBookPart" ->
            <<"CloseBracket", "Markup", "MarkupLines", "Score", "Paper",
              "Header", "Layout">> \o toplevel_base_items
      [] p = "LilyPondParserPaper" ->
            base_items \o <<"CloseBracket", "Markup", "MarkupLines",
                            "PaperVariable", "EqualSign", "DecimalValue", "Unit">>
      [] p = "LilyPondParserHeader" ->
            <<"CloseBracket", "Markup", "MarkupLines", "HeaderVariable",
              "EqualSign">> \o toplevel_base_items
      [] p \in {"LilyPondParserLayout", "LilyPondParserMidi"} ->
            base_items \o <<"CloseBracket", "LayoutContext", "LayoutVariable",
                            "EqualSign", "DecimalValue", "Unit">>
      [] p = "LilyPondParserWith" ->
            <<"CloseBracket", "ContextProperty", "EqualSign">> \o toplevel_base_items
      [] p = "LilyPondParserContext" ->
            <<"CloseBracket", "BackSlashedContextName", "ContextProperty",
              "EqualSign">> \o toplevel_base_items
      [] p \in MusicParsers -> music_items
      [] p = "LilyPondParserChord" -> music_chord_items
      [] p = "StringParser" -> <<"StringQuotedEnd", "StringQuoteEscape">>
      [] p = "BlockCommentParser" -> <<"BlockCommentSpace", "BlockCommentEnd">>
      [] p = "MarkupParser" ->
            <<"MarkupScore", "MarkupCommand", "OpenBracketMarkup",
              "CloseBracketMarkup", "MarkupWord">> \o base_items
      [] p = "RepeatParser" ->
            space_items \o <<"RepeatSpecifier", "RepeatStringSpecifier", "RepeatCount">>
      [] p = "DurationParser" -> space_items \o <<"Dot">>
      [] p = "DurationScalingParser" -> space_items \o <<"Scaling">>
      [] p = "LilyPondParserOverride" ->
            <<"ContextName", "DotSetOverride", "GrobName", "EqualSignSetOverride",
              "Name", "Markup", "MarkupLines">> \o base_items
      [] p = "LilyPondParserRevert" ->
            space_items \o <<"ContextName", "DotSetOverride", "GrobName", "Name",
                             "SchemeStart">>
      [] p = "LilyPondParserSet" ->
            <<"ContextName", "DotSetOverride", "ContextProperty",
              "EqualSignSetOverride", "Name", "Markup", "MarkupLines">> \o base_items
      [] p = "LilyPondParserUnset" ->
            space_items \o <<"ContextName", "DotSetOverride", "ContextProperty", "Name">>
      [] p = "LilyPondParserNewContext" ->
            space_items \o <<"ContextName", "Name", "EqualSign", "StringQuotedStart">>
      [] p = "LilyPondParserClef" -> space_items \o <<"ClefSpecifier", "StringQuotedStart">>
      [] p = "ScriptAbbreviationParser" -> space_items \o <<"ScriptAbbreviation">>
      [] p = "LilyPondParserExpectLyricMode" ->
            space_items \o <<"OpenBracket", "OpenSimultaneous", "SchemeStart",
                             "StringQuotedStart", "Name">>
      [] p = "LilyPondParserLyricMode" ->
            base_items \o
            <<"CloseBracket", "CloseSimultaneous", "OpenBracket", "OpenSimultaneous",
              "LyricHyphen", "LyricExtender", "LyricSkip", "LyricTie", "LyricText",
              "Dynamic", "Skip", "DurationStart", "Markup", "MarkupLines">>
            \o command_items
      [] p \in ExpectModeParsers -> ExpectModeItems
      [] p = "SchemeParser" -> <<>>

(* variant of FallthroughParsers: the duration parsers are plain parsers *)
FallthroughParsers_NoDuration ==
    {"RepeatParser", "LilyPondParserRevert", "LilyPondParserUnset",
     "LilyPondParserNewContext", "LilyPondParserClef", "ScriptAbbreviationParser",
     "LilyPondParserExpectLyricMode"} \cup ExpectModeParsers

(* FallthroughParser subclasses *)
FallthroughParsers ==
    {"RepeatParser", "DurationParser", "DurationScalingParser",
     "LilyPondParserRevert", "LilyPondParserUnset", "LilyPondParserNewContext",
     "LilyPondParserClef", "ScriptAbbreviationParser",
     "LilyPondParserExpectLyricMode"} \cup ExpectModeParsers

(* variant of default: StringParser declares no default *)
default_NoString(p) ==
    CASE p \in ExpectOpenBracketParsers -> "Error"
      [] p = "BlockCommentParser" -> "Comment"
      [] OTHER -> "Unparsed"

(* the default kind a parser declares; "Unparsed" stands for the default
   of a parser that declares none *)
default(p) ==
    CASE p \in ExpectOpenBracketParsers -> "Error"
      [] p = "StringParser" -> "String"
      [] p = "BlockCommentParser" -> "Comment"
      [] OTHER -> "Unparsed"

(* variant of the class-level argcount: the override and set parsers await
   one argument from the start *)
argcount_Override(p) ==
    IF p \in {"LilyPondParserClef", "ScriptAbbreviationParser",
              "LilyPondParserOverride", "LilyPondParserSet"} THEN 1 ELSE 0

(* the class-level argcount *)
argcount(p) ==
    IF p \in {"LilyPondParserClef", "ScriptAbbreviationParser"} THEN 1 ELSE 0

(* every parser class *)
ParserNames ==
    {"LilyPondParserGlobal", "LilyPondParserScore", "LilyPondParserBook",
     "LilyPondParserBookPart", "LilyPondParserPaper", "LilyPondParserHeader",
     "LilyPondParserLayout", "LilyPondParserMidi", "LilyPondParserWith",
     "LilyPondParserContext", "LilyPondParserExpectScore", "LilyPondParserExpectBook",
     "LilyPondParserExpectBookPart", "LilyPondParserExpectPaper",
     "LilyPondParserExpectHeader", "LilyPondParserExpectLayout",
     "LilyPondParserExpectMidi", "LilyPondParserExpectWith",
     "LilyPondParserExpectContext", "LilyPondParserMusic", "LilyPondParserChord",
     "StringParser", "BlockCommentParser", "MarkupParser", "RepeatParser",
     "DurationParser", "DurationScalingParser", "LilyPondParserOverride",
     "LilyPondParserRevert", "LilyPondParserSet", "LilyPondParserUnset",
     "LilyPondParserNewContext", "LilyPondParserClef", "ScriptAbbreviationParser",
     "LilyPondParserExpectLyricMode", "LilyPondParserLyricMode",
     "LilyPondParserExpectChordMode", "LilyPondParserChordMode",
     "LilyPondParserExpectNoteMode", "LilyPondParserNoteMode",
     "LilyPondParserExpectDrumMode", "LilyPondParserDrumMode",
     "LilyPondParserExpectFigureMode", "LilyPondParserFigureMode", "SchemeParser"}

(* the class attributes as the module defines them *)
ClassArgcounts == [p \in ParserNames |-> argcount(p)]

(* Parser(argcount): an instance reads the argcount of its class unless one
   is given *)
Parser(p) == [p |-> p, argcount |-> classes[p]]

ParserN(p, n) == [p |-> p, argcount |-> n]

(* variant of the replace attribute: every subclass names the score body *)
replaceOf_Score(p) == "LilyPondParserScore"

(* ExpectOpenBracket subclasses: the replace attribute *)
replaceOf(p) ==
    CASE p = "LilyPondParserExpectScore" -> "LilyPondParserScore"
      [] p = "LilyPondParserExpectBook" -> "LilyPondParserBook"
      [] p = "LilyPondParserExpectBookPart" -> "LilyPondParserBookPart"
      [] p = "LilyPondParserExpectPaper" -> "LilyPondParserPaper"
      [] p = "LilyPondParserExpectHeader" -> "LilyPondParserHeader"
      [] p = "LilyPondParserExpectLayout" -> "LilyPondParserLayout"
      [] p = "LilyPondParserExpectMidi" -> "LilyPondParserMidi"
      [] p = "LilyPondParserExpectWith" -> "LilyPondParserWith"
      [] p = "LilyPondParserExpectContext" -> "LilyPondParserContext"

(* the body parser an Expect...Mode parser enters *)
modeOf(p) ==
    CASE p = "LilyPondParserExpectLyricMode" -> "LilyPondParserLyricMode"
      [] p = "LilyPondParserExpectChordMode" -> "LilyPondParserChordMode"
      [] p = "LilyPondParserExpectNoteMode" -> "LilyPondParserNoteMode"
      [] p = "LilyPondParserExpectDrumMode" -> "LilyPondParserDrumMode"
      [] p = "LilyPondParserExpectFigureMode" -> "LilyPondParserFigureMode"

(***************************************************************************)
(* The state object: the operations on the stack of parsers.  The top of   *)
(* the stack is the last element.                                          *)
(***************************************************************************)
enter(s, parser) == Append(s, parser)

(* pops unconditionally; popping the empty stack is the underflow that
   Abort reports *)
leave(s) == IF s = <<>> THEN s ELSE SubSeq(s, 1, Len(s) - 1)

replace(s, parser) == Append(leave(s), parser)

RECURSIVE endArgument(_)
(* the top parser's pending argument is complete: decrement its argcount;
   a parser whose argcount reaches zero is popped and is itself one complete
   argument of the parser below, where the walk goes on; a top parser that
   waits for no argument ends the walk *)
endArgument(s) ==
    IF s = <<>> THEN s
    ELSE IF s[Len(s)].argcount = 0 THEN s
    ELSE IF s[Len(s)].argcount = 1 THEN endArgument(leave(s))
    ELSE [s EXCEPT ![Len(s)].argcount = @ - 1]

(* variant of ItemKinds: a markup word ends no argument *)
ItemKinds_NoMarkupWord ==
    {"DecimalValue", "Fraction", "Keyword", "Command", "Unit",
     "LyricText", "LyricHyphen", "LyricExtender", "LyricSkip", "LyricTie"}

(* token kinds that derive from _token.Item and define no updateState:
   a complete item ends one argument *)
ItemKinds ==
    {"DecimalValue", "Fraction", "Keyword", "Command", "Unit", "MarkupWord",
     "LyricText", "LyricHyphen", "LyricExtender", "LyricSkip", "LyricTie"}

(* variant of LeaverKinds: RepeatCount is a plain value *)
LeaverKinds_NoRepeatCount == {"BlockCommentEnd", "ScriptAbbreviation", "ChordEnd"}

(* variant of LeaverKinds: BlockCommentEnd is a plain comment token *)
LeaverKinds_NoBlockCommentEnd == {"ScriptAbbreviation", "RepeatCount", "ChordEnd"}

(* variant of LeaverKinds: the end of a slur pops its parser *)
LeaverKinds_SlurEnd ==
    {"BlockCommentEnd", "ScriptAbbreviation", "RepeatCount", "ChordEnd", "SlurEnd"}

(* token kinds that derive from _token.Leaver: the token pops its parser *)
LeaverKinds == {"BlockCommentEnd", "ScriptAbbreviation", "RepeatCount", "ChordEnd"}

(* variant of MarkupCommand.updateState that takes every command to have
   one argument *)
(* variant of MarkupCommand.updateState: a command of no arguments is
   treated as a name of no word list *)
MarkupCommandState_NoZero(s, t, i, n) ==
    LET command == IF n = 1 THEN t[i] ELSE "\\unknown" IN
    IF command \in markupcommands_nargs[2] THEN enter(s, ParserN("MarkupParser", 2))
    ELSE IF command \in markupcommands_nargs[3] THEN enter(s, ParserN("MarkupParser", 3))
    ELSE IF command \in markupcommands_nargs[4] THEN enter(s, ParserN("MarkupParser", 4))
    ELSE enter(s, ParserN("MarkupParser", 1))

MarkupCommandState_One(s, t, i, n) == enter(s, ParserN("MarkupParser", 1))

(* MarkupCommand.updateState: command is the matched text without the
   backslash; a match longer than one atom is a name of no word list *)
MarkupCommandState(s, t, i, n) ==
    LET command == IF n = 1 THEN t[i] ELSE "\\unknown" IN
    IF command \in markupcommands_nargs[0] THEN endArgument(s)
    ELSE IF command \in markupcommands_nargs[2] THEN enter(s, ParserN("MarkupParser", 2))
    ELSE IF command \in markupcommands_nargs[3] THEN enter(s, ParserN("MarkupParser", 3))
    ELSE IF command \in markupcommands_nargs[4] THEN enter(s, ParserN("MarkupParser", 4))
    ELSE enter(s, ParserN("MarkupParser", 1))

(* variant of CloseBracket.updateState: the closing token leaves its
   context and ends no argument *)
CloseBracketState_NoEnd(s) == leave(s)

(* CloseBracket.updateState, also StringQuotedEnd, CloseSimultaneous *)
CloseBracketState(s) == endArgument(leave(s))

(* variant of CloseBracketMarkup.updateState without the last endArgument *)
CloseBracketMarkupState_NoEnd(s) == leave(endArgument(s))

CloseBracketMarkupState(s) == endArgument(leave(endArgument(s)))

(* variant of ParserUpdateState: ExpectOpenBracket enters its body parser
   on top of itself where the code replaces itself *)
ParserUpdateState_Enter(s, kind) ==
    LET p == s[Len(s)].p IN
    IF p \in ExpectOpenBracketParsers /\ kind = "OpenBracket"
    THEN enter(s, Parser(replaceOf(p)))
    ELSE IF p \in ExpectModeParsers \cup {"LilyPondParserExpectLyricMode"}
            /\ kind \in {"OpenBracket", "OpenSimultaneous"}
    THEN enter(s, Parser(modeOf(p)))
    ELSE IF p = "LilyPondParserLyricMode" /\ kind \in {"OpenBracket", "OpenSimultaneous"}
    THEN enter(s, Parser("LilyPondParserLyricMode"))
    ELSE s

(* EqualSignSetOverride.updateState: state.parser().argcount = 1 assigns the
   attribute of the parser instance on top *)
EqualSignSetOverrideState(s) == [s EXCEPT ![Len(s)].argcount = 1]

(* variant: the assignment goes to the class of the parser on top *)
EqualSignSetOverrideClass_Shared(c, s) == [c EXCEPT ![s[Len(s)].p] = 1]

(* EqualSignSetOverride.updateState: what the assignment does to the class
   attributes c: nothing, the attribute is the instance's *)
EqualSignSetOverrideClass(c, s) == c

(* the class attributes after the transition of a token of the given kind *)
updateClasses(kind, c, s) ==
    IF kind = "EqualSignSetOverride" THEN EqualSignSetOverrideClass(c, s) ELSE c

(* the updateState of the parser on top, for a token kind without its own *)
ParserUpdateState(s, kind) ==
    LET p == s[Len(s)].p IN
    IF p \in ExpectOpenBracketParsers /\ kind = "OpenBracket"
    THEN replace(s, Parser(replaceOf(p)))
    ELSE IF p \in ExpectModeParsers \cup {"LilyPondParserExpectLyricMode"}
            /\ kind \in {"OpenBracket", "OpenSimultaneous"}
    THEN enter(s, Parser(modeOf(p)))
    ELSE IF p = "LilyPondParserLyricMode" /\ kind \in {"OpenBracket", "OpenSimultaneous"}
    THEN enter(s, Parser("LilyPondParserLyricMode"))
    ELSE s

(* the parser classes that define an updateState of their own *)
HasUpdateState(p) ==
    p \in ExpectOpenBracketParsers \cup ExpectModeParsers
          \cup {"LilyPondParserExpectLyricMode", "LilyPondParserLyricMode"}

(* variant of BlockCommentStart.updateState: where the parser on top
   defines an updateState, that one is run in its place *)
BlockCommentStartState_Shadowed(s) ==
    IF HasUpdateState(s[Len(s)].p) THEN ParserUpdateState(s, "BlockCommentStart")
    ELSE enter(s, Parser("BlockCommentParser"))

(* BlockCommentStart.updateState *)
BlockCommentStartState(s) == enter(s, Parser("BlockCommentParser"))

(* StringQuotedStart.updateState *)
StringQuotedStartState(s) == enter(s, Parser("StringParser"))

(* the transition of a token of the given kind, matched at index i with
   length n while s was the stack *)
updateState(kind, s, t, i, n) ==
    CASE kind = "BlockCommentStart" -> BlockCommentStartState(s)
      [] kind = "StringQuotedStart" -> StringQuotedStartState(s)
      [] kind \in {"StringQuotedEnd", "CloseBracket", "SequentialEnd",
                   "CloseSimultaneous", "SimultaneousEnd"} -> CloseBracketState(s)
      [] kind = "DurationStart" -> enter(s, Parser("DurationParser"))
      [] kind \in {"SequentialStart", "SimultaneousStart"} ->
            enter(s, Parser("LilyPondParserMusic"))
      [] kind = "Direction" -> enter(s, Parser("ScriptAbbreviationParser"))
      [] kind \in {"Score", "MarkupScore"} -> enter(s, Parser("LilyPondParserExpectScore"))
      [] kind = "Book" -> enter(s, Parser("LilyPondParserExpectBook"))
      [] kind = "BookPart" -> enter(s, Parser("LilyPondParserExpectBookPart"))
      [] kind = "Paper" -> enter(s, Parser("LilyPondParserExpectPaper"))
      [] kind = "Header" -> enter(s, Parser("LilyPondParserExpectHeader"))
      [] kind = "Layout" -> enter(s, Parser("LilyPondParserExpectLayout"))
      [] kind = "Midi" -> enter(s, Parser("LilyPondParserExpectMidi"))
      [] kind = "With" -> enter(s, Parser("LilyPondParserExpectWith"))
      [] kind = "LayoutContext" -> enter(s, Parser("LilyPondParserExpectContext"))
      [] kind \in {"Markup", "MarkupLines"} -> enter(s, ParserN("MarkupParser", 1))
      [] kind = "MarkupCommand" -> MarkupCommandState(s, t, i, n)
      [] kind = "OpenBracketMarkup" -> enter(s, Parser("MarkupParser"))
      [] kind = "CloseBracketMarkup" -> CloseBracketMarkupState(s)
      [] kind = "Repeat" -> enter(s, Parser("RepeatParser"))
      [] kind = "Override" -> enter(s, Parser("LilyPondParserOverride"))
      [] kind = "Set" -> enter(s, Parser("LilyPondParserSet"))
      [] kind = "Revert" -> enter(s, Parser("LilyPondParserRevert"))
      [] kind = "Unset" -> enter(s, Parser("LilyPondParserUnset"))
      [] kind \in {"New", "Context", "Change"} -> enter(s, Parser("LilyPondParserNewContext"))
      [] kind = "Clef" -> enter(s, Parser("LilyPondParserClef"))
      [] kind = "LyricMode" -> enter(s, Parser("LilyPondParserExpectLyricMode"))
      [] kind = "NoteMode" -> enter(s, Parser("LilyPondParserExpectNoteMode"))
      [] kind = "ChordMode" -> enter(s, Parser("LilyPondParserExpectChordMode"))
      [] kind = "DrumMode" -> enter(s, Parser("LilyPondParserExpectDrumMode"))
      [] kind = "FigureMode" -> enter(s, Parser("LilyPondParserExpectFigureMode"))
      [] kind = "SchemeStart" -> enter(s, ParserN("SchemeParser", 1))
      [] kind = "ChordStart" -> enter(s, Parser("LilyPondParserChord"))
      [] kind = "EqualSignSetOverride" -> EqualSignSetOverrideState(s)
      [] kind \in LeaverKinds -> leave(s)
      [] kind \in ItemKinds -> endArgument(s)
      [] OTHER -> ParserUpdateState(s, kind)

(* variant of fallthrough: DurationParser inherits the fallthrough of
   FallthroughParser where the code overrides it with replace *)
fallthrough_Leave(s) == leave(s)

(* variant of fallthrough: DurationScalingParser inherits the fallthrough
   of DurationParser where the code overrides it with leave *)
fallthrough_Inherited(s) ==
    IF s[Len(s)].p \in {"DurationParser", "DurationScalingParser"}
    THEN replace(s, Parser("DurationScalingParser"))
    ELSE leave(s)

(* FallthroughParser.fallthrough and its overrides *)
fallthrough(s) ==
    IF s[Len(s)].p = "DurationParser"
    THEN replace(s, Parser("DurationScalingParser"))
    ELSE leave(s)

RECURSIVE FirstFrom(_, _, _, _)
(* the first kind of the table, from index k on, whose pattern matches *)
FirstFrom(its, k, t, i) ==
    IF k > Len(its) THEN "none"
    ELSE IF rx(its[k], t, i) > 0 THEN its[k]
    ELSE FirstFrom(its, k + 1, t, i)

(* Parser.parse: the candidate kinds are tried in declared order *)
parse(p, t, i) == FirstFrom(items(p), 1, t, i)

(***************************************************************************)
(* The input texts.                                                        *)
(***************************************************************************)
MaxLen == 4

MaxNest == 2

MaxItems == 3

MaxBody == 5

MaxWords == 5

MaxLiveLen == 2

MaxComment == 3

MaxWait == 2

MaxSlurs == 2

MaxCommands == 3

MaxLhs == 3

Cat(A, B) == {a \o b : a \in A, b \in B}

RECURSIVE UpTo(_, _)
(* the concatenations of at most n elements of E *)
UpTo(E, n) == IF n = 0 THEN {<<>>} ELSE {<<>>} \cup Cat(E, UpTo(E, n - 1))

(* every text of at most MaxLen atoms over these atoms *)
GenAtoms == {"\\markup", "\\repeat", "{", "}", "\"", "c", "4", "sp"}

GenTexts == UpTo({<<a>> : a \in GenAtoms}, MaxLen)

(* documents of block keywords, each followed by { and closed by } *)
RECURSIVE Blocks(_)
Blocks(d) ==
    IF d = 0 THEN {}
    ELSE {<<k, "{">> \o b \o <<"}">> : k \in BlockKeywords, b \in Blocks(d - 1) \cup {<<>>}}

BlockDocs ==
    Blocks(MaxNest)
    \cup Cat(Blocks(1), Blocks(1))
    \cup {<<k, "{">> \o b \o <<"}">> : k \in BlockKeywords, b \in Cat(Blocks(1), Blocks(1))}
    \cup {<<k, "sp", "{">> \o b \o <<"}", "sp">> : k \in BlockKeywords, b \in Blocks(1)}

(* the stacks a construct is tried in: toplevel, music, a score block *)
Prefixes == {<<>>, <<"{">>, <<"\\score", "{">>}

(* \markup { ... } around words and quoted strings *)
MarkupItems == {<<"x">>, <<"sp">>, <<"\"", "x", "\"">>, <<"\"", "\"">>}

MarkupDocs ==
    Cat(Prefixes,
        Cat({<<"\\markup", "{">>, <<"\\markup", "sp", "{">>},
            Cat(UpTo(MarkupItems, MaxItems), {<<"}">>, <<"}", "sp", "x">>})))

(* a markup command and as many words as its arity, or one less or more *)
ArityDocs ==
    Cat({<<"\\markup">>, <<"\\markup", "{">>, <<"\\markup", "\\bold">>},
        Cat({<<"\\raise">>, <<"\\beam">>, <<"\\pattern">>},
            UpTo({<<"sp", "x">>, <<"sp", "c", "x">>}, MaxWords)))

(* nested sequential and simultaneous groups of notes, rests, durations *)
GroupHead == {<<>>, <<"sp", "r", "4", "sp">>}

GroupTail == {<<>>, <<"c", "4">>, <<"c", "sp">>}

RECURSIVE Groups(_)
Groups(d) ==
    IF d = 0 THEN {}
    ELSE LET body == Cat(GroupHead, Cat(Groups(d - 1) \cup {<<>>}, GroupTail)) IN
         {<<"{">> \o b \o <<"}">> : b \in body}
         \cup {<<"<", "<">> \o b \o <<">", ">">> : b \in body}

MusicDocs ==
    Groups(MaxNest)
    \cup Cat({<<"\\relative", "sp">>}, Groups(1))
    \cup Cat({<<"{">>, <<"<", "<">>}, Cat(Cat(Groups(1), Groups(1)), {<<"}">>, <<">", ">">>}))
    \cup {<<"\\relative", "sp", "{", "sp", "c", "4", "sp", "c", "sp", "c", "sp", "c", "sp", "}">>}

(* \repeat volta 2 { c4 } *)
RepeatDocs ==
    Cat(Prefixes \cup {<<"<", "<">>, <<"\\lyricmode", "{">>, <<"\\chordmode", "{">>},
        Cat({<<"\\repeat", "sp", "volta", "sp">>, <<"\\repeat", "volta">>,
             <<"\\repeat", "sp", "\"", "volta", "\"">>},
            Cat({<<"2">>, <<"2", "sp">>, <<"2", "4", "sp">>},
                {<<"{", "sp", "c", "4", "sp", "}">>, <<"{", "c", "4", "}">>, <<"{", "}">>})))

(* a quoted string with any body of backslashes, quotes and ordinary text *)
StringDocs ==
    Cat({<<>>, <<"{">>, <<"\\markup">>},
        Cat({<<"\"">>}, UpTo({<<"\\">>, <<"\"">>, <<"x">>}, MaxBody)))

(* a block comment around comment starts, quotes, brackets and keywords,
   closed or not *)
CommentDocs ==
    Cat({<<>>, <<"{">>},
        Cat({<<"%{">>},
            Cat(UpTo({<<"%{">>, <<"\"">>, <<"{">>, <<"\\score">>, <<"sp">>}, MaxComment),
                {<<>>, <<"%}">>, <<"%}", "x">>})))

(* a comment while an open bracket is awaited, a string and a comment while
   the body of an input mode is awaited and in the body of \lyricmode *)
AwaitBlockDocs ==
    {<<k, "sp", "%{", "x", "%}", "sp", "{", "}">> : k \in {"\\score", "\\header", "\\book"}}

AwaitModeDocs ==
    Cat({<<m>> : m \in InputModeNames},
        Cat({<<"sp", "%{", "x", "%}">>, <<"sp", "\"", "x", "\"", "sp", "%{", "x", "%}">>},
            {<<"{", "}">>, <<"sp", "{", "sp", "%{", "{", "%}", "sp", "\"", "x", "\"", "sp", "}">>}))
    \cup {<<"\\lyricmode", "sp", "\"", "x", "\"", "sp", "{", "sp", "x", "sp", "}">>}

ContextDocs == AwaitBlockDocs \cup AwaitModeDocs \cup Cat(AwaitBlockDocs, AwaitModeDocs)

(* a block keyword where its context lists it, then blanks, comments or
   other text, then { or << *)
KeywordStarts ==
    {<<k>> : k \in {"\\score", "\\book", "\\bookpart", "\\paper", "\\header",
                    "\\layout", "\\with"}}
    \cup {<<"\\score", "{", "\\midi">>, <<"\\layout", "{", "\\context">>}

ExpectDocs ==
    Cat(KeywordStarts,
        Cat(UpTo({<<"sp">>, <<"%{", "x", "%}">>, <<"x">>, <<"4">>}, MaxWait),
            Cat({<<"{">>, <<"<", "<">>}, {<<>>, <<"}">>})))

(* markup command names of every arity and of none, in a markup context *)
CommandNames ==
    {<<n>> : n \in MarkupCommandNames \cup {"\\markup"}}
    \cup {<<"\\null", "x">>, <<"\\raise", "-", "c">>, <<"\\bold", "-", "c", "-", "x">>}

CommandDocs ==
    {<<"\\markup", "{", "\\pattern", "\\beam", "\\raise", "\\null", "sp", "\\bold",
       "\\foo", "\\null", "sp", "\\raise", "-", "c", "}">>} \cup
    Cat({<<"\\markup">>, <<"\\markup", "{">>, <<"\\markup", "\\raise">>},
        Cat(CommandNames, {<<>>, <<"sp", "x">>, <<"sp", "x", "sp", "x">>}))

(* slurs, phrasing slurs, ties, beams and ligatures in any order *)
SlurPieces ==
    {<<"(">>, <<")">>, <<"\\", "(">>, <<"\\", ")">>, <<"~">>, <<"[">>, <<"]">>,
     <<"\\", "[">>, <<"\\", "]">>, <<"c">>}

SlurDocs ==
    {<<"{", "c", ")", "(", "\\", ")", "\\", "(", "~", "]", "[", "\\", "]", "\\", "[", "}">>} \cup
    Cat({<<"{">>, <<"{", "c", "4">>, <<"{", "<", "c", "sp">>}, UpTo(SlurPieces, MaxSlurs))

(* \markup and commands of one argument, then one argument *)
NestedMarkupDocs ==
    Cat(Prefixes,
        Cat({<<"\\markup">>},
            Cat(UpTo({<<"sp", "\\bold">>, <<"sp", "\\italic">>, <<"\\bold">>}, MaxCommands),
                Cat({<<"sp", "x">>, <<"sp", "\"", "x", "\"">>, <<"{", "x", "}">>},
                    {<<>>, <<"sp", "x">>}))))

(* \override and \set: names, dots and strings, = and a value *)
LhsPieces == {<<"x">>, <<".">>, <<"\"", "x", "\"">>}

OverrideValues ==
    {<<>>, <<"\"", "x", "\"">>, <<"\"", "x", "\"", "sp", "\"", "x", "\"">>,
     <<"\\markup", "sp", "x">>, <<"x">>, <<"2">>}

OverrideDocs ==
    Cat({<<>>, <<"{">>},
        Cat({<<"\\override", "sp">>, <<"\\set", "sp">>},
            Cat(UpTo(LhsPieces, MaxLhs),
                Cat({<<>>, <<"sp", "=", "sp">>}, OverrideValues))))

(* an input mode keyword, its body and what follows the body *)
ModeBodies ==
    {<<"{", "sp", "x", "sp", "}">>, <<"{", "}">>, <<"<", "<", "sp", "x", "sp", ">", ">">>,
     <<"{", "sp", "{", "sp", "x", "sp", "}", "sp", "}">>,
     <<"{", "sp", "<", "<", "sp", ">", ">", "sp", "}">>}

ModeTails ==
    {<<>>, <<"sp", "x">>, <<"x">>, <<"{", "sp", "x", "sp", "}">>, <<"sp", "{", "}">>,
     <<"sp", "<", "<", "sp", ">", ">">>}

ModeDocs ==
    Cat({<<>>, <<"{">>},
        Cat({<<m>> : m \in InputModeNames},
            Cat({<<>>, <<"sp">>}, Cat(ModeBodies, ModeTails))))

(* a note and a duration, then dots, scalings, blanks, comments and notes
   in any order *)
MaxSuffix == 3

SuffixPieces ==
    {<<".">>, <<"*", "2">>, <<"sp">>, <<"%{", "x", "%}">>, <<"c">>}

DurationDocs ==
    Cat({<<"{", "c", "4">>, <<"\\lyricmode", "{", "sp", "x", "4">>},
        UpTo(SuffixPieces, MaxSuffix))
    \cup {<<"{", "c", "4", ".", "sp", ".", "%{", "x", "%}", "*", "2", "sp", "*", "sp", "4", "/", "2",
             ".", "sp", "c", "}">>}

(* in music and in a chord: articulation shorthands, << and >>, backslashed
   slur and beam marks, single < and > and notes *)
MaxChord == 2

ChordPieces ==
    {<<"-", ">">>, <<"_", ".">>, <<"<", "<">>, <<">", ">">>, <<"\\", "(">>,
     <<"\\", "]">>, <<">">>, <<"<">>, <<"c">>}

ChordDocs ==
    Cat({<<"{">>, <<"{", "<", "c", "sp">>}, UpTo(ChordPieces, MaxChord))
    \cup {<<"{", "<", "c", "-", ">", "^", "-", "<", "<", ">", ">", "\\", "(", "\\", ")", "\\", "[",
             "\\", "]", "\\", "\\", "sp", "<", "c", ">", "sp", "c", ">", "sp", "<", "<", "sp", "c",
             "sp", ">", ">", "}">>}

(* \score as a markup argument: \markup, perhaps a command or a brace,
   \score, blanks or a comment, the score block and what follows *)
MarkupScoreDocs ==
    Cat(Prefixes,
        Cat({<<"\\markup">>, <<"\\markup", "sp", "\\bold">>, <<"\\markup", "{">>},
            Cat({<<"sp", "\\score">>, <<"\\score">>},
                Cat({<<>>, <<"sp">>, <<"%{", "x", "%}">>},
                    Cat({<<"{", "}">>, <<"{", "sp", "{", "c", "4", "}", "sp", "}">>,
                         <<"{", "\\layout", "{", "}", "}">>},
                        {<<>>, <<"sp", "x">>, <<"}">>})))))

Inputs ==
    GenTexts \cup BlockDocs \cup MarkupDocs \cup ArityDocs \cup MusicDocs
    \cup RepeatDocs \cup StringDocs \cup CommentDocs \cup ContextDocs
    \cup ExpectDocs \cup CommandDocs \cup SlurDocs \cup NestedMarkupDocs
    \cup OverrideDocs \cup ModeDocs \cup DurationDocs
    \cup ChordDocs \cup MarkupScoreDocs

(***************************************************************************)
(* State.tokens: one step of the tokenizer loop per action.                *)
(***************************************************************************)
Toplevel == <<Parser("LilyPondParserGlobal")>>

(* what a run that has not ended has produced *)
Nothing == [tokens |-> <<>>, stack |-> <<>>, status |-> "running"]

(* a fresh session over the text t *)
Fresh(t) ==
    /\ text = t
    /\ pos = 0
    /\ classes = ClassArgcounts
    /\ stack = Toplevel
    /\ tokens = <<>>
    /\ status = "running"
    /\ run = 1
    /\ first = Nothing

Init == \E t \in Inputs : Fresh(t)

Top == stack[Len(stack)]

Token(kind, n, after) ==
    [kind |-> kind, pos |-> pos, len |-> n, before |-> stack, after |-> after]

(* a candidate of the top parser matches at the cursor: the token is emitted
   and its transition is applied *)
Emit ==
    /\ status = "running"
    /\ stack # <<>>
    /\ LET kind == parse(Top.p, text, pos + 1)
           n == rx(kind, text, pos + 1)
           after == updateState(kind, stack, text, pos + 1, n) IN
       /\ kind # "none"
       /\ tokens' = Append(tokens, Token(kind, n, after))
       /\ pos' = pos + n
       /\ stack' = after
       /\ classes' = updateClasses(kind, classes, stack)
    /\ UNCHANGED <<text, status, run, first>>

(* no candidate matches and the top parser is a fallthrough parser: it gives
   way without consuming input *)
Fallthrough ==
    /\ status = "running"
    /\ stack # <<>>
    /\ Top.p \in FallthroughParsers
    /\ parse(Top.p, text, pos + 1) = "none"
    /\ stack' = fallthrough(stack)
    /\ UNCHANGED <<text, pos, tokens, status, classes, run, first>>

(* no candidate matches, input remains: one character is emitted as a token
   of the parser's default kind *)
EmitDefault ==
    /\ status = "running"
    /\ stack # <<>>
    /\ Top.p \notin FallthroughParsers
    /\ pos < Len(text)
    /\ parse(Top.p, text, pos + 1) = "none"
    /\ LET after == ParserUpdateState(stack, default(Top.p)) IN
       /\ tokens' = Append(tokens, Token(default(Top.p), 1, after))
       /\ stack' = after
    /\ pos' = pos + 1
    /\ UNCHANGED <<text, status, classes, run, first>>

(* no candidate matches at the end of the input: the sequence ends *)
Finish ==
    /\ status = "running"
    /\ stack # <<>>
    /\ Top.p \notin FallthroughParsers
    /\ pos = Len(text)
    /\ parse(Top.p, text, pos + 1) = "none"
    /\ status' = "done"
    /\ UNCHANGED <<text, pos, stack, tokens, classes, run, first>>

(* the stack has underflowed: there is no parser to continue with *)
Abort ==
    /\ status = "running"
    /\ stack = <<>>
    /\ status' = "error"
    /\ UNCHANGED <<text, pos, stack, tokens, classes, run, first>>

Next == Emit \/ Fallthrough \/ EmitDefault \/ Finish \/ Abort

Spec == Init /\ [][Next]_vars

(* the texts termination is checked on *)
LiveAtoms == {"\\markup", "\\repeat", "}", "4"}

LiveInputs ==
    Cat({<<>>, <<"{", "c">>}, UpTo({<<a>> : a \in LiveAtoms}, MaxLiveLen))
    \cup {<<"\\repeat", "sp", "volta", "sp", "2", "sp", "{", "sp", "c", "4", "sp", "}">>}

InitLive == \E t \in LiveInputs : Fresh(t)

(* the texts that are tokenized twice *)
TwiceInputs == OverrideDocs \cup RepeatDocs \cup {<<"\\markup", "}">>}

InitTwice == \E t \in TwiceInputs : Fresh(t)

(* the run has ended: the text is tokenized once more by a new session, from
   a start stack equal to that of the first run *)
Restart ==
    /\ status # "running"
    /\ run = 1
    /\ run' = 2
    /\ first' = [tokens |-> tokens, stack |-> stack, status |-> status]
    /\ pos' = 0
    /\ stack' = Toplevel
    /\ tokens' = <<>>
    /\ status' = "running"
    /\ UNCHANGED <<text, classes>>

NextTwice == Next \/ Restart

SpecTwice == InitTwice /\ [][NextTwice]_vars

(* the loop runs on as long as it can *)
SpecLive == InitLive /\ [][Next]_vars /\ WF_vars(Next)

TypeOK ==
    /\ pos \in 0..Len(text)
    /\ status \in {"running", "done", "error"}

(***************************************************************************)
(* Reading the token sequence.                                             *)
(***************************************************************************)
StringStack(k) == Append(tokens[k].before, Parser("StringParser"))

RECURSIVE StringEnd(_, _)
(* the index of the first double quote from index i on that is not the
   second character of an escape pair, read left to right; 0 if none *)
StringEnd(t, i) ==
    IF i > Len(t) THEN 0
    ELSE IF t[i] = "\\" /\ At(t, i + 1) \in {"\\", "\""} THEN StringEnd(t, i + 2)
    ELSE IF t[i] = "\"" THEN i
    ELSE StringEnd(t, i + 1)

(* an escape pair starts at index i: a backslash and then a backslash or
   a double quote *)
EscapePair(t, i) == At(t, i) = "\\" /\ At(t, i + 1) \in {"\\", "\""}

(* the emitted tokens follow one another without gap or overlap from 0 on *)
Contiguous ==
    \A k \in 1..Len(tokens) :
        /\ tokens[k].len >= 1
        /\ tokens[k].pos = (IF k = 1 THEN 0 ELSE tokens[k - 1].pos + tokens[k - 1].len)

(***************************************************************************)
(* C1: after any sequence of tokens of any input the context stack is not  *)
(* empty and its bottom element is the toplevel context.                   *)
(***************************************************************************)
C1_StackKeepsToplevel == stack # <<>> /\ stack[1] = Parser("LilyPondParserGlobal")

(***************************************************************************)
(* C3: tokenization of every input terminates: every token consumes at     *)
(* least one character and every run of steps that consume nothing ends.   *)
(***************************************************************************)
C3_Terminates == [](\A k \in 1..Len(tokens) : tokens[k].len >= 1) /\ <>(status # "running")

(* the sequence has ended after a duration suffix gave way twice in a row *)
C3_Witness ==
    /\ status = "done"
    /\ \E k \in 1..(Len(tokens) - 1) :
          /\ tokens[k].kind = "DurationStart"
          /\ tokens[k + 1].before = tokens[k].before

(***************************************************************************)
(* C4: the tokens have non-decreasing positions, do not overlap, and when  *)
(* tokenization has stopped they cover every character of the input.       *)
(***************************************************************************)
C4_TokensCoverInput ==
    /\ Contiguous
    /\ status # "running" =>
          Len(text) = (IF tokens = <<>> THEN 0
                       ELSE tokens[Len(tokens)].pos + tokens[Len(tokens)].len)

(***************************************************************************)
(* C9 as stated: after the opening quote of an unterminated string every   *)
(* token is a String token of the default kind, no error is raised, and    *)
(* the sequence ends one context deeper than before the quote.             *)
(***************************************************************************)
C9_Original ==
    \A k \in 1..Len(tokens) :
        (tokens[k].kind = "StringQuotedStart" /\ StringEnd(text, tokens[k].pos + 2) = 0) =>
            /\ status # "error"
            /\ stack = StringStack(k)
            /\ \A j \in (k + 1)..Len(tokens) : tokens[j].kind = "String"
            /\ status = "done" => pos = Len(text)

(***************************************************************************)
(* C9 amended: after the opening quote of an unterminated string every     *)
(* token is a String token of the default kind or the StringQuoteEscape    *)
(* token of an escape pair; there is no closing token, no error, and the   *)
(* sequence ends with the string context on top, one deeper than before.   *)
(***************************************************************************)
C9_Unterminated ==
    \A k \in 1..Len(tokens) :
        (tokens[k].kind = "StringQuotedStart" /\ StringEnd(text, tokens[k].pos + 2) = 0) =>
            /\ status # "error"
            /\ tokens[k].after = StringStack(k)
            /\ stack = StringStack(k)
            /\ \A j \in (k + 1)..Len(tokens) :
                  /\ tokens[j].kind \in {"String", "StringQuoteEscape"}
                  /\ tokens[j].kind = "StringQuoteEscape" <=>
                        EscapePair(text, tokens[j].pos + 1)
            /\ status = "done" => pos = Len(text)

(* an unterminated string with ordinary text and an escaped quote has been
   read to the end *)
C9_Witness ==
    /\ status = "done"
    /\ Len(stack) = 3
    /\ \E k \in 1..Len(tokens) :
          /\ tokens[k].kind = "StringQuotedStart"
          /\ StringEnd(text, tokens[k].pos + 2) = 0
          /\ \E j \in (k + 1)..Len(tokens) : tokens[j].kind = "String"
          /\ \E j \in (k + 1)..Len(tokens) : tokens[j].kind = "StringQuoteEscape"

(***************************************************************************)
(* C10: the string context is popped exactly at the first double quote     *)
(* that is not the second character of an escape pair; before it, every    *)
(* token keeps the string context on top and an escape pair is one         *)
(* StringQuoteEscape token.                                                *)
(***************************************************************************)
C10_StringEnd ==
    \A k \in 1..Len(tokens) :
        tokens[k].kind = "StringQuotedStart" =>
            LET e == StringEnd(text, tokens[k].pos + 2) IN
            \A j \in (k + 1)..Len(tokens) :
                /\ (e = 0 \/ tokens[j].pos + 1 < e) =>
                      /\ tokens[j].before = StringStack(k)
                      /\ tokens[j].after = StringStack(k)
                      /\ tokens[j].kind # "StringQuotedEnd"
                      /\ EscapePair(text, tokens[j].pos + 1) =>
                            (tokens[j].kind = "StringQuoteEscape" /\ tokens[j].len = 2)
                /\ (e > 0 /\ tokens[j].pos + 1 = e) =>
                      /\ tokens[j].kind = "StringQuotedEnd"
                      /\ tokens[j].before = StringStack(k)
                      /\ Len(tokens[j].after) <= Len(tokens[k].before)

(* a string whose body is an escaped quote and an escaped backslash has
   been closed by the quote that follows them *)
C10_Witness ==
    \E k \in 1..Len(tokens) :
        /\ tokens[k].kind = "StringQuotedStart"
        /\ Len(tokens) = k + 3
        /\ tokens[k + 1].kind = "StringQuoteEscape" /\ text[tokens[k + 1].pos + 2] = "\""
        /\ tokens[k + 2].kind = "StringQuoteEscape" /\ text[tokens[k + 2].pos + 2] = "\\"
        /\ tokens[k + 3].kind = "StringQuotedEnd"
        /\ stack = tokens[k].before

(***************************************************************************)
(* Reading bracket structure.                                              *)
(***************************************************************************)
RECURSIVE CloseFrom(_, _, _)
(* the index of the } that closes the depth-th open { when read from i *)
CloseFrom(t, i, depth) ==
    IF i > Len(t) THEN 0
    ELSE IF t[i] = "{" THEN CloseFrom(t, i + 1, depth + 1)
    ELSE IF t[i] = "}" THEN (IF depth = 1 THEN i ELSE CloseFrom(t, i + 1, depth - 1))
    ELSE CloseFrom(t, i + 1, depth)

(* the index of the } matching the { at index j; 0 if there is none *)
MatchClose(t, j) == CloseFrom(t, j + 1, 1)

(* the index of the first atom after index i that is not a blank *)
AfterBlanks(t, i) == i + 1 + Run({"sp"}, t, i + 1)

RECURSIVE BeforeBlanks(_, _)
(* the index of the last atom before index i that is not a blank; 0 if none *)
BeforeBlanks(t, i) ==
    IF i <= 1 THEN 0
    ELSE IF t[i - 1] = "sp" THEN BeforeBlanks(t, i - 1) ELSE i - 1

RECURSIVE BracesBalanced(_, _, _)
BracesBalanced(t, i, depth) ==
    IF i > Len(t) THEN depth = 0
    ELSE IF t[i] = "{" THEN BracesBalanced(t, i + 1, depth + 1)
    ELSE IF t[i] = "}" THEN depth > 0 /\ BracesBalanced(t, i + 1, depth - 1)
    ELSE BracesBalanced(t, i + 1, depth)

(* the token that follows token k, blanks skipped *)
NextToken(k) ==
    IF k + 1 <= Len(tokens) /\ tokens[k + 1].kind = "Space" THEN k + 2 ELSE k + 1

Atom(k) == text[tokens[k].pos + 1]

TopOf(s) == s[Len(s)]

(***************************************************************************)
(* Block documents: block keywords, each followed by { and closed by }.    *)
(***************************************************************************)
IsBlockDoc(t) ==
    /\ t # <<>>
    /\ \A i \in 1..Len(t) : t[i] \in BlockKeywords \cup {"{", "}", "sp"}
    /\ BracesBalanced(t, 1, 0)
    /\ \A i \in 1..Len(t) :
          /\ t[i] \in BlockKeywords => At(t, AfterBlanks(t, i)) = "{"
          /\ t[i] = "{" => At(t, BeforeBlanks(t, i)) \in BlockKeywords

BlockKinds ==
    {"Score", "Book", "BookPart", "Paper", "Header", "Layout", "Midi", "With",
     "LayoutContext"}

(* the keyword of token k pushed one context, and that context was removed
   by the bracket that closes the keyword's block, not earlier *)
RemovedByOwnBracket(k) ==
    LET m == MatchClose(text, AfterBlanks(text, tokens[k].pos + 1)) IN
    /\ Len(tokens[k].after) = Len(tokens[k].before) + 1
    /\ \A j \in (k + 1)..Len(tokens) :
          /\ tokens[j].pos + 1 < m => Len(tokens[j].after) > Len(tokens[k].before)
          /\ tokens[j].pos + 1 = m => tokens[j].after = tokens[k].before

Markup1 == ParserN("MarkupParser", 1)

Markup0 == Parser("MarkupParser")

(* token k is a Markup token followed by { , words, blanks and complete
   quoted strings, and } , in a context that waits for no argument *)
IsMarkupBraces(k) ==
    LET o == AfterBlanks(text, tokens[k].pos + 1)
        m == MatchClose(text, o) IN
    /\ tokens[k].kind = "Markup"
    /\ TopOf(tokens[k].before).argcount = 0
    /\ At(text, o) = "{"
    /\ m > 0
    /\ \A i \in (o + 1)..(m - 1) : text[i] \in {"x", "sp", "\""}
    /\ Cardinality({i \in (o + 1)..(m - 1) : text[i] = "\""}) % 2 = 0

(***************************************************************************)
(* C5: for \markup { ... } around words and quoted strings, Markup pushes  *)
(* a markup context with argcount 1, OpenBracketMarkup pushes a nested     *)
(* markup body, no word or string inside the braces ends the pending       *)
(* argument, and the stack is back at the stack before \markup exactly at  *)
(* the CloseBracketMarkup token.                                           *)
(***************************************************************************)
C5_MarkupBraces ==
    \A k \in 1..Len(tokens) :
        IsMarkupBraces(k) =>
            LET o == AfterBlanks(text, tokens[k].pos + 1)
                m == MatchClose(text, o)
                body == tokens[k].before \o <<Markup1, Markup0>> IN
            /\ tokens[k].after = Append(tokens[k].before, Markup1)
            /\ \A j \in (k + 1)..Len(tokens) :
                  /\ tokens[j].pos + 1 < o => tokens[j].after = tokens[k].after
                  /\ tokens[j].pos + 1 = o =>
                        /\ tokens[j].kind = "OpenBracketMarkup"
                        /\ tokens[j].after = body
                  /\ (o < tokens[j].pos + 1 /\ tokens[j].pos + 1 < m) =>
                        /\ tokens[j].kind \in {"MarkupWord", "Space", "StringQuotedStart",
                                              "String", "StringQuotedEnd"}
                        /\ Len(tokens[j].after) >= Len(body)
                        /\ SubSeq(tokens[j].after, 1, Len(body)) = body
                  /\ tokens[j].pos + 1 = m =>
                        /\ tokens[j].kind = "CloseBracketMarkup"
                        /\ tokens[j].before = body
                        /\ tokens[j].after = tokens[k].before

(* \markup { ... } with two words and a quoted string inside the braces has
   been closed *)
C5_Witness ==
    \E k \in 1..Len(tokens) :
        /\ IsMarkupBraces(k)
        /\ stack = tokens[k].before
        /\ tokens[Len(tokens)].kind = "CloseBracketMarkup"
        /\ Cardinality({j \in k..Len(tokens) : tokens[j].kind = "MarkupWord"}) >= 2
        /\ \E j \in k..Len(tokens) : tokens[j].kind = "StringQuotedEnd"

(***************************************************************************)
(* Markup commands and their arguments.                                    *)
(***************************************************************************)
(* the declared arity of the command of token k *)
Arity(k) == CHOOSE n \in 0..4 : Atom(k) \in markupcommands_nargs[n]

(* token k is a markup command declared with 2, 3 or 4 arguments *)
IsArityCommand(k) ==
    /\ tokens[k].kind = "MarkupCommand"
    /\ tokens[k].len = 1
    /\ \E n \in 2..4 : Atom(k) \in markupcommands_nargs[n]

(* the j tokens that follow token k are markup words, a blank before each *)
WordsFollow(k, j) ==
    /\ k + 2 * j <= Len(tokens)
    /\ \A w \in 1..j :
          /\ tokens[k + 2 * w - 1].kind = "Space"
          /\ tokens[k + 2 * w].kind = "MarkupWord"

(***************************************************************************)
(* C6: a markup command of arity N in 2..4 followed by N markup words      *)
(* keeps its markup context after each of the first N-1 words, with the    *)
(* argcount one less per word, and the context is gone exactly after the   *)
(* Nth word; no argcount goes below zero.                                  *)
(***************************************************************************)
C6_ArgumentCountdown ==
    /\ \A i \in 1..Len(stack) : stack[i].argcount >= 0
    /\ \A k \in 1..Len(tokens) :
          IsArityCommand(k) =>
              /\ tokens[k].after = Append(tokens[k].before, ParserN("MarkupParser", Arity(k)))
              /\ \A j \in 1..Arity(k) :
                    WordsFollow(k, j) =>
                        /\ tokens[k + 2 * j - 1].after =
                              Append(tokens[k].before, ParserN("MarkupParser", Arity(k) - j + 1))
                        /\ j < Arity(k) =>
                              tokens[k + 2 * j].after =
                                  Append(tokens[k].before, ParserN("MarkupParser", Arity(k) - j))
                        /\ j = Arity(k) =>
                              LET b == tokens[k].before IN
                              CASE TopOf(b).argcount = 0 -> tokens[k + 2 * j].after = b
                                [] TopOf(b).argcount = 1 ->
                                      Len(tokens[k + 2 * j].after) < Len(b)
                                [] OTHER ->
                                      tokens[k + 2 * j].after =
                                          [b EXCEPT ![Len(b)].argcount = @ - 1]

(* a command of arity 3 inside markup braces has just read its third word *)
C6_Witness ==
    \E k \in 1..Len(tokens) :
        /\ IsArityCommand(k)
        /\ Arity(k) = 3
        /\ WordsFollow(k, 3)
        /\ Len(tokens) = k + 6
        /\ TopOf(tokens[k].before) = Markup0
        /\ stack = tokens[k].before

(***************************************************************************)
(* Music groups.                                                           *)
(***************************************************************************)
RECURSIVE Nested(_, _, _)
(* the brackets { } and << >> of t are properly nested from index i on,
   open being the brackets opened so far; single < and > do not occur *)
Nested(t, i, open) ==
    IF i > Len(t) THEN open = <<>>
    ELSE IF t[i] = "{" THEN Nested(t, i + 1, Append(open, "{"))
    ELSE IF t[i] = "<" THEN At(t, i + 1) = "<" /\ Nested(t, i + 2, Append(open, "<<"))
    ELSE IF t[i] = "}"
         THEN open # <<>> /\ TopOf(open) = "{" /\ Nested(t, i + 1, leave(open))
    ELSE IF t[i] = ">"
         THEN At(t, i + 1) = ">" /\ open # <<>> /\ TopOf(open) = "<<"
              /\ Nested(t, i + 2, leave(open))
    ELSE Nested(t, i + 1, open)

(* properly nested groups of notes, rests and durations *)
IsMusicDoc(t) ==
    /\ \A i \in 1..Len(t) : t[i] \in {"{", "}", "<", ">", "c", "r", "4", "sp", "\\relative"}
    /\ \E i \in 1..Len(t) : t[i] \in {"{", "<"}
    /\ Nested(t, 1, <<>>)

OpenKinds == {"SequentialStart", "SimultaneousStart"}

CloseKinds == {"SequentialEnd", "SimultaneousEnd"}

RECURSIVE OpenerFrom(_, _)
(* the index of the opening token of the group that is depth groups deep
   at token j, read backwards *)
OpenerFrom(j, depth) ==
    IF j < 1 THEN 0
    ELSE IF tokens[j].kind \in CloseKinds THEN OpenerFrom(j - 1, depth + 1)
    ELSE IF tokens[j].kind \in OpenKinds
         THEN (IF depth = 1 THEN j ELSE OpenerFrom(j - 1, depth - 1))
    ELSE OpenerFrom(j - 1, depth)

(* the opening token of the group that token c closes *)
Opener(c) == OpenerFrom(c - 1, 1)

Music == Parser("LilyPondParserMusic")

(***************************************************************************)
(* C7: in properly nested groups of notes, rests and durations each { and  *)
(* << pushes one music context and each } and >> pops one: the closing     *)
(* token is matched with the group's music context on top, every duration  *)
(* context of the group popped, and leaves the stack that was there before *)
(* the opening token; the final stack is the initial one.                  *)
(***************************************************************************)
C7_MusicGroups ==
    IsMusicDoc(text) =>
        /\ status # "error"
        /\ status = "done" => stack = Toplevel
        /\ \A k \in 1..Len(tokens) :
              /\ Atom(k) = "{" => tokens[k].kind = "SequentialStart"
              /\ Atom(k) = "<" => tokens[k].kind = "SimultaneousStart"
              /\ Atom(k) = "}" => tokens[k].kind = "SequentialEnd"
              /\ Atom(k) = ">" => tokens[k].kind = "SimultaneousEnd"
              /\ tokens[k].kind \in OpenKinds =>
                    tokens[k].after = Append(tokens[k].before, Music)
              /\ tokens[k].kind \in CloseKinds =>
                    /\ Opener(k) > 0
                    /\ tokens[k].before = tokens[Opener(k)].after
                    /\ tokens[k].after = tokens[Opener(k)].before
                    /\ Len(tokens[k].after) = Len(tokens[k].before) - 1

(* a group nested in a group, with a duration right before each closing
   token, has been read to the end *)
C7_Witness ==
    /\ status = "done"
    /\ IsMusicDoc(text)
    /\ \E k \in 2..Len(tokens) :
          /\ tokens[k].kind = "SequentialEnd"
          /\ tokens[k - 1].kind = "DurationStart"
          /\ Len(tokens[k].before) = 3
    /\ \E k \in 2..Len(tokens) :
          /\ tokens[k].kind = "SimultaneousEnd"
          /\ Len(tokens[k].before) = 2

(***************************************************************************)
(* \repeat.                                                                *)
(***************************************************************************)
Repeat == Parser("RepeatParser")

LyricBody == Parser("LilyPondParserLyricMode")

(* the next token after token k that is not a blank, or one past the last
   token when k is no token or none follows *)
After(k) == IF k \in 1..Len(tokens) THEN NextToken(k) ELSE Len(tokens) + 1

(* token k is a Repeat token followed by a specifier a, a count b and
   the { c, blanks apart *)
IsRepeat(k, a, b, c) ==
    /\ tokens[k].kind = "Repeat"
    /\ a <= Len(tokens) /\ b <= Len(tokens) /\ c <= Len(tokens)
    /\ tokens[a].kind \in {"RepeatSpecifier", "RepeatStringSpecifier"}
    /\ tokens[b].kind = "RepeatCount"
    /\ Atom(c) = "{"

(* the part of C8 that holds in every context *)
RepeatLeavesAtCount(k, a, b, c) ==
    /\ tokens[k].after = Append(tokens[k].before, Repeat)
    /\ \A j \in (k + 1)..a : tokens[j].after = tokens[k].after
    /\ \A j \in (a + 1)..(b - 1) : tokens[j].after = tokens[k].after
    /\ tokens[b].before = tokens[k].after
    /\ tokens[b].after = tokens[k].before
    /\ \A j \in (b + 1)..c : tokens[j].before = tokens[k].before
    /\ \A j \in (c + 1)..Len(tokens) :
          tokens[j].pos + 1 = MatchClose(text, tokens[c].pos + 1) =>
              tokens[j].after = tokens[k].before

RECURSIVE CommentEnd(_, _)
(* the index of the first %} from index i on; 0 if none *)
CommentEnd(t, i) ==
    IF i > Len(t) THEN 0
    ELSE IF t[i] = "%}" THEN i
    ELSE CommentEnd(t, i + 1)

CommentStack(k) == Append(tokens[k].before, Parser("BlockCommentParser"))

(***************************************************************************)
(* C11: block comments never nest: a BlockCommentStart pushes the block    *)
(* comment context; up to the first %} every token is comment text or a    *)
(* comment blank and leaves the stack as it is, whatever it spells; the    *)
(* first %} is a BlockCommentEnd that pops exactly the block comment       *)
(* context; without a %} the sequence ends normally with the block comment *)
(* context on top.                                                         *)
(***************************************************************************)
C11_BlockComment ==
    \A k \in 1..Len(tokens) :
        tokens[k].kind = "BlockCommentStart" =>
            LET e == CommentEnd(text, tokens[k].pos + 2) IN
            /\ tokens[k].after = CommentStack(k)
            /\ \A j \in (k + 1)..Len(tokens) :
                  /\ (e = 0 \/ tokens[j].pos + 1 < e) =>
                        /\ tokens[j].kind \in {"Comment", "BlockCommentSpace"}
                        /\ tokens[j].before = CommentStack(k)
                        /\ tokens[j].after = CommentStack(k)
                  /\ (e > 0 /\ tokens[j].pos + 1 = e) =>
                        /\ tokens[j].kind = "BlockCommentEnd"
                        /\ tokens[j].before = CommentStack(k)
                        /\ tokens[j].after = tokens[k].before
            /\ e = 0 => (status # "error" /\ stack = CommentStack(k))
            /\ (e = 0 /\ status = "done") => pos = Len(text)

(* a comment around a comment start, a quote and a keyword has been closed
   by the first %} *)
C11_Witness ==
    \E k \in 1..Len(tokens) :
        /\ tokens[k].kind = "BlockCommentStart"
        /\ Len(tokens) = k + 4
        /\ Atom(k + 1) = "%{" /\ Atom(k + 2) = "\"" /\ Atom(k + 3) = "\\score"
        /\ tokens[k + 4].kind = "BlockCommentEnd"
        /\ stack = tokens[k].before

(***************************************************************************)
(* The transition of a token kind in the contexts that list it.            *)
(***************************************************************************)
(* the token kinds whose transition enters one parser, whatever the context *)
EnteringKinds ==
    {"BlockCommentStart", "StringQuotedStart", "Markup", "MarkupLines", "Repeat",
     "DurationStart", "LyricMode", "ChordMode"}

(* the parser instance the transition of such a kind enters *)
Entered(kind) ==
    CASE kind = "BlockCommentStart" -> [p |-> "BlockCommentParser", argcount |-> 0]
      [] kind = "StringQuotedStart" -> [p |-> "StringParser", argcount |-> 0]
      [] kind \in {"Markup", "MarkupLines"} -> [p |-> "MarkupParser", argcount |-> 1]
      [] kind = "Repeat" -> [p |-> "RepeatParser", argcount |-> 0]
      [] kind = "DurationStart" -> [p |-> "DurationParser", argcount |-> 0]
      [] kind = "LyricMode" -> [p |-> "LilyPondParserExpectLyricMode", argcount |-> 0]
      [] kind = "ChordMode" -> [p |-> "LilyPondParserExpectChordMode", argcount |-> 0]

(* the parser on top when token k was matched *)
Context(k) == TopOf(tokens[k].before).p

(***************************************************************************)
(* C12: the transition of a token's own kind is applied in every context   *)
(* that lists the kind: a BlockCommentStart pushes the block comment       *)
(* context and a StringQuotedStart the string context (and so for the      *)
(* other kinds that enter a parser), also where the parser on top has an   *)
(* updateState of its own: while an open bracket is awaited, while the     *)
(* body of an input mode is awaited, and in the body of \lyricmode.        *)
(***************************************************************************)
C12_OwnTransition ==
    \A k \in 1..Len(tokens) :
        tokens[k].kind \in EnteringKinds =>
            tokens[k].after = Append(tokens[k].before, Entered(tokens[k].kind))

(* one text has had a comment start matched while an open bracket was
   awaited, while a mode body was awaited and in the lyric body, and a quote
   matched while the lyric body was awaited and inside it *)
C12_Witness ==
    /\ status = "done"
    /\ \E k \in 1..Len(tokens) :
          tokens[k].kind = "BlockCommentStart" /\ Context(k) \in ExpectOpenBracketParsers
    /\ \E k \in 1..Len(tokens) :
          tokens[k].kind = "BlockCommentStart" /\ Context(k) = "LilyPondParserExpectLyricMode"
    /\ \E k \in 1..Len(tokens) :
          tokens[k].kind = "BlockCommentStart" /\ Context(k) = "LilyPondParserLyricMode"
    /\ \E k \in 1..Len(tokens) :
          tokens[k].kind = "StringQuotedStart" /\ Context(k) = "LilyPondParserExpectLyricMode"
    /\ \E k \in 1..Len(tokens) :
          tokens[k].kind = "StringQuotedStart" /\ Context(k) = "LilyPondParserLyricMode"

(***************************************************************************)
(* A block keyword awaiting its open bracket.                              *)
(***************************************************************************)
(* the body context of each block keyword *)
BodyContext(kind) ==
    CASE kind = "Score" -> "LilyPondParserScore"
      [] kind = "Book" -> "LilyPondParserBook"
      [] kind = "BookPart" -> "LilyPondParserBookPart"
      [] kind = "Paper" -> "LilyPondParserPaper"
      [] kind = "Header" -> "LilyPondParserHeader"
      [] kind = "Layout" -> "LilyPondParserLayout"
      [] kind = "Midi" -> "LilyPondParserMidi"
      [] kind = "With" -> "LilyPondParserWith"
      [] kind = "LayoutContext" -> "LilyPondParserContext"

(* token j is matched by the expect context that keyword token k pushed,
   before that context has seen its open bracket *)
Awaits(k, j) ==
    /\ k < j
    /\ tokens[k].kind \in BlockKinds
    /\ tokens[j].before = tokens[k].after
    /\ \A i \in (k + 1)..(j - 1) :
          /\ Len(tokens[i].after) >= Len(tokens[k].after)
          /\ ~(tokens[i].before = tokens[k].after /\ tokens[i].kind = "OpenBracket")

(* the text of token j starts with the atom a *)
StartsWith(j, a) == At(text, tokens[j].pos + 1) = a

(* the bracket token j replaced the expect context of keyword k by the
   keyword's body context, at the same depth *)
ReplacedByBody(k, j) ==
    /\ Len(tokens[j].after) = Len(tokens[j].before)
    /\ tokens[j].after =
          Append(tokens[k].before, [p |-> BodyContext(tokens[k].kind), argcount |-> 0])

(***************************************************************************)
(* C13 as stated: while a block keyword awaits its bracket, the token at a *)
(* `{` or at a `<<` replaces the expect context by the keyword's body      *)
(* context, at the same stack depth.                                       *)
(***************************************************************************)
C13_Original ==
    \A k, j \in 1..Len(tokens) :
        ( /\ Awaits(k, j)
          /\ \/ StartsWith(j, "{")
             \/ StartsWith(j, "<") /\ At(text, tokens[j].pos + 2) = "<" )
        => ReplacedByBody(k, j)

(***************************************************************************)
(* C13 amended: the expect context of a block keyword matches only blanks, *)
(* comment starts and `{`; any other text, `<<` included, is an Error      *)
(* token of one character that leaves the expect context waiting on top.   *)
(* The token at `{` is an OpenBracket that replaces the expect context by  *)
(* the body context of the keyword: same depth, new top the body context.  *)
(***************************************************************************)
C13_ExpectOpenBracket ==
    \A k, j \in 1..Len(tokens) :
        Awaits(k, j) =>
            /\ tokens[k].after = Append(tokens[k].before, TopOf(tokens[k].after))
            /\ TopOf(tokens[k].after).p \in ExpectOpenBracketParsers
            /\ tokens[j].kind \in
                  {"Space", "BlockCommentStart", "LineComment", "OpenBracket", "Error"}
            /\ StartsWith(j, "{") <=> tokens[j].kind = "OpenBracket"
            /\ tokens[j].kind = "OpenBracket" => ReplacedByBody(k, j)
            /\ tokens[j].kind \in {"Space", "LineComment", "Error"} =>
                  tokens[j].after = tokens[j].before
            /\ StartsWith(j, "<") =>
                  tokens[j].kind = "Error" /\ tokens[j].len = 1

(* a keyword other than \score has waited through a blank, a comment and an
   Error token and then had its context replaced at the bracket *)
C13_Witness ==
    /\ status = "done"
    /\ \E k, j \in 1..Len(tokens) :
          /\ Awaits(k, j)
          /\ tokens[k].kind # "Score"
          /\ tokens[j].kind = "OpenBracket"
          /\ ReplacedByBody(k, j)
          /\ \E i \in (k + 1)..(j - 1) : tokens[i].kind = "Error"
          /\ \E i \in (k + 1)..(j - 1) : tokens[i].kind \in {"Space", "BlockCommentStart"}

(***************************************************************************)
(* The transition of a markup command, by the declared arity of its name.  *)
(***************************************************************************)
(* the arities the word lists declare for the name of command token k; a
   name of several atoms (\raise-c) is in no word list *)
Declared(k) ==
    IF tokens[k].len = 1
    THEN {n \in 0..4 : Atom(k) \in markupcommands_nargs[n]}
    ELSE {}

(* after is before with one pending argument of its top context ended: a
   top that awaits none is left alone, one that awaits several awaits one
   less, and one that awaits its last is removed, which in turn ends an
   argument of the context below *)
RECURSIVE OneArgumentEnded(_, _)
OneArgumentEnded(before, after) ==
    IF before = <<>> THEN after = <<>>
    ELSE LET top == before[Len(before)] IN
         CASE top.argcount = 0 -> after = before
           [] top.argcount = 1 ->
                 OneArgumentEnded(SubSeq(before, 1, Len(before) - 1), after)
           [] OTHER ->
                 after = [before EXCEPT ![Len(before)].argcount = top.argcount - 1]

(***************************************************************************)
(* C14: a markup command token's transition depends only on the declared   *)
(* arity of its name: arity 2, 3 or 4 pushes a markup context with that    *)
(* argcount; arity 1 and a name of no word list push a markup context with *)
(* argcount 1; arity 0 pushes nothing and ends one pending argument of the *)
(* enclosing context.                                                      *)
(***************************************************************************)
C14_MarkupArity ==
    \A k \in 1..Len(tokens) :
        tokens[k].kind = "MarkupCommand" =>
            /\ \A n \in 2..4 :
                  n \in Declared(k) =>
                      tokens[k].after =
                          Append(tokens[k].before, [p |-> "MarkupParser", argcount |-> n])
            /\ Declared(k) \subseteq {1} =>
                  tokens[k].after =
                      Append(tokens[k].before, [p |-> "MarkupParser", argcount |-> 1])
            /\ 0 \in Declared(k) =>
                  /\ Len(tokens[k].after) <= Len(tokens[k].before)
                  /\ OneArgumentEnded(tokens[k].before, tokens[k].after)

(* one markup expression has held commands of every arity, a name of no
   word list, a name of several atoms, and \null both where it removes the
   enclosing context and where it only counts down *)
C14_Witness ==
    /\ status = "done"
    /\ \A n \in 0..4 :
          \E k \in 1..Len(tokens) :
              tokens[k].kind = "MarkupCommand" /\ n \in Declared(k)
    /\ \E k \in 1..Len(tokens) :
          tokens[k].kind = "MarkupCommand" /\ tokens[k].len = 1 /\ Declared(k) = {}
    /\ \E k \in 1..Len(tokens) :
          tokens[k].kind = "MarkupCommand" /\ tokens[k].len > 1
    /\ \E k \in 1..Len(tokens) :
          /\ tokens[k].kind = "MarkupCommand" /\ 0 \in Declared(k)
          /\ Len(tokens[k].after) < Len(tokens[k].before)
    /\ \E k \in 1..Len(tokens) :
          /\ tokens[k].kind = "MarkupCommand" /\ 0 \in Declared(k)
          /\ Len(tokens[k].after) = Len(tokens[k].before)
          /\ tokens[k].after # tokens[k].before

(***************************************************************************)
(* Slurs, ties, beams and ligatures.                                       *)
(***************************************************************************)
SlurKinds ==
    {"SlurStart", "SlurEnd", "PhrasingSlurStart", "PhrasingSlurEnd", "Tie",
     "BeamStart", "BeamEnd", "LigatureStart", "LigatureEnd"}

(***************************************************************************)
(* C15: a slur, phrasing slur, tie, beam or ligature token is matched in a *)
(* music context (a chord included) and leaves the stack as it was: same   *)
(* depth, same contexts, same argcounts, whatever the order or balance of  *)
(* the tokens.                                                             *)
(***************************************************************************)
C15_SlursKeepStack ==
    \A k \in 1..Len(tokens) :
        tokens[k].kind \in SlurKinds =>
            /\ Context(k) \in MusicParsers \cup {"LilyPondParserChord"}
            /\ tokens[k].after = tokens[k].before

(* every one of the nine kinds has been matched in one music expression,
   each end before its start *)
C15_Witness ==
    /\ status = "done"
    /\ \A kind \in SlurKinds : \E k \in 1..Len(tokens) : tokens[k].kind = kind
    /\ \E k, j \in 1..Len(tokens) :
          k < j /\ tokens[k].kind = "SlurEnd" /\ tokens[j].kind = "SlurStart"
    /\ \E k, j \in 1..Len(tokens) :
          k < j /\ tokens[k].kind = "LigatureEnd" /\ tokens[j].kind = "LigatureStart"

(***************************************************************************)
(* Tokenizing the same text twice.                                         *)
(***************************************************************************)
(* the tokens of the run under way are the first tokens of the first run *)
SameSoFar ==
    /\ Len(tokens) <= Len(first.tokens)
    /\ tokens = SubSeq(first.tokens, 1, Len(tokens))

(***************************************************************************)
(* C16: tokenizing the same text twice from equal start stacks gives the   *)
(* same tokens, the same resulting stack and the same outcome: the second  *)
(* run repeats the first token by token.  The argument counters that       *)
(* endArgument decrements or that EqualSignSetOverride sets to 1 are those *)
(* of parser instances of the run; the class-level argcounts, the only     *)
(* state that outlives a run, are never written.                           *)
(***************************************************************************)
C16_Restartable ==
    /\ classes = [p \in DOMAIN classes |->
                     IF p \in {"LilyPondParserClef", "ScriptAbbreviationParser"}
                     THEN 1 ELSE 0]
    /\ run = 2 => SameSoFar
    /\ (run = 2 /\ status # "running") =>
          /\ tokens = first.tokens
          /\ stack = first.stack
          /\ status = first.status

(* the second run has ended after an = in \override or \set set the argcount
   of a parser instance to 1 and a later token ended that argument *)
C16_Witness ==
    /\ run = 2
    /\ status = "done"
    /\ \E k \in 1..Len(tokens) :
          /\ tokens[k].kind = "EqualSignSetOverride"
          /\ TopOf(tokens[k].before).argcount = 0
          /\ TopOf(tokens[k].after).argcount = 1
          /\ \E j \in (k + 1)..Len(tokens) :
                Len(tokens[j].after) < Len(tokens[k].after)

(***************************************************************************)
(* The body of \lyricmode and its closing token.                           *)
(***************************************************************************)
BracketKinds == {"OpenBracket", "OpenSimultaneous"}

LyricContexts == {"LilyPondParserExpectLyricMode", "LilyPondParserLyricMode"}

(* token k is a { or << that a lyric context matched *)
OpensLyricBody(k) ==
    tokens[k].kind \in BracketKinds /\ Context(k) \in LyricContexts

(* the tokens after k that removed the context token k pushed *)
Closers(k) ==
    {j \in (k + 1)..Len(tokens) : Len(tokens[j].after) < Len(tokens[k].after)}

(* the first of them *)
Closer(k) == CHOOSE j \in Closers(k) : \A i \in Closers(k) : j <= i

(* the bracket token k pushed a lyric-mode body context and its closing
   token, when there is one, is a } or >> that restores the stack *)
UndoneByClose(k) ==
    /\ tokens[k].after = Append(tokens[k].before, LyricBody)
    /\ Closers(k) # {} =>
          /\ tokens[Closer(k)].kind \in {"CloseBracket", "CloseSimultaneous"}
          /\ tokens[Closer(k)].after = tokens[k].before

(* no lyric-mode body context is on the stack s *)
NoLyricBody(s) == \A i \in 1..Len(s) : s[i].p # "LilyPondParserLyricMode"

(* the brackets of lyric mode are undone by their closing tokens, and the
   close of the mode's body leaves no lyric-mode body context behind *)
LyricBracketsPop ==
    \A k \in 1..Len(tokens) :
        OpensLyricBody(k) =>
            /\ UndoneByClose(k)
            /\ (Context(k) = "LilyPondParserExpectLyricMode" /\ Closers(k) # {}) =>
                  NoLyricBody(tokens[Closer(k)].after)

(* after the close of the body that token k opened for \lyricmode, no token
   is matched by the lyric-mode body context unless another \lyricmode
   precedes it *)
NotLyricAfterwards(k) ==
    \A j \in (Closer(k) + 1)..Len(tokens) :
        Context(j) = "LilyPondParserLyricMode" =>
            \E i \in (Closer(k) + 1)..(j - 1) : tokens[i].kind = "LyricMode"

(***************************************************************************)
(* C17: in the lyric-mode body a closing token pops the stack: every { or  *)
(* << that pushed a lyric-mode body context is undone by its } or >>, so   *)
(* that after the body of \lyricmode is closed no lyric-mode body context  *)
(* is on the stack and the text that follows is not tokenized by the       *)
(* lyric-mode body context.                                                *)
(***************************************************************************)
C17_LyricModeClosed ==
    /\ LyricBracketsPop
    /\ \A k \in 1..Len(tokens) :
          ( /\ OpensLyricBody(k)
            /\ Context(k) = "LilyPondParserExpectLyricMode"
            /\ Closers(k) # {} )
          => NotLyricAfterwards(k)

(***************************************************************************)
(* An input mode keyword and its one body.                                 *)
(***************************************************************************)
ModeKinds == {"LyricMode", "ChordMode", "NoteMode", "DrumMode", "FigureMode"}

(* the bracket tokens after keyword token k that the expect context pushed
   by k has matched *)
BodyOpeners(k) ==
    {c \in (k + 1)..Len(tokens) :
        /\ tokens[c].kind \in BracketKinds
        /\ tokens[c].before = tokens[k].after}

(* the first of them opens the body of the keyword *)
BodyOpener(k) == CHOOSE c \in BodyOpeners(k) : \A i \in BodyOpeners(k) : c <= i

(***************************************************************************)
(* C18: an input mode keyword takes exactly one bracketed body: when the   *)
(* closing bracket of the body has been matched the stack equals the stack *)
(* before the keyword, and no later bracket is matched by the expect       *)
(* context of that keyword, that is, no second group enters the mode's     *)
(* body context.                                                           *)
(***************************************************************************)
C18_OneBody ==
    \A k \in 1..Len(tokens) :
        ( /\ tokens[k].kind \in ModeKinds
          /\ BodyOpeners(k) # {}
          /\ Closers(BodyOpener(k)) # {} )
        => /\ tokens[Closer(BodyOpener(k))].after = tokens[k].before
           /\ BodyOpeners(k) = {BodyOpener(k)}

(***************************************************************************)
(* \markup, commands of one argument, and the one argument.                *)
(***************************************************************************)
(* token j is a markup command of one argument *)
IsUnaryCommand(j) ==
    tokens[j].kind = "MarkupCommand" /\ Declared(j) \subseteq {1}

(* the first token from j on that is neither a blank nor a command of one
   argument: the start of the argument *)
RECURSIVE ArgumentStart(_)
ArgumentStart(j) ==
    IF j > Len(tokens) THEN j
    ELSE IF tokens[j].kind = "Space" \/ IsUnaryCommand(j) THEN ArgumentStart(j + 1)
    ELSE j

(* the commands between \markup at k and the argument at a *)
CommandsBetween(k, a) == {j \in (k + 1)..(a - 1) : IsUnaryCommand(j)}

(* the token that ends the argument starting at token a: a markup word is
   its own end; a string and a braced list end with the token that removes
   the context their first token pushed; 0 when the end is not there *)
ArgumentEnd(a) ==
    IF a > Len(tokens) THEN 0
    ELSE IF tokens[a].kind = "MarkupWord" THEN a
    ELSE IF tokens[a].kind \in {"StringQuotedStart", "OpenBracketMarkup"}
            /\ Closers(a) # {}
    THEN Closer(a)
    ELSE 0

(* no markup context that still awaits an argument is on the stack s *)
NoPendingMarkup(s) ==
    \A i \in 1..Len(s) : ~(s[i].p = "MarkupParser" /\ s[i].argcount > 0)

(***************************************************************************)
(* C19: when \markup is followed by commands of one argument each and then *)
(* one argument (a word, a string or a braced list), the argument is read  *)
(* with one markup context of argcount 1 per command plus the one of       *)
(* \markup on the stack, and the token that ends the argument pops them    *)
(* all: the stack equals the stack before \markup and no markup context    *)
(* with a positive argcount is left.  Where the context around \markup     *)
(* itself awaits an argument (the value of \override), the markup          *)
(* expression is that argument and ends it in turn.                        *)
(***************************************************************************)
C19_AllArgumentsEnd ==
    \A k \in 1..Len(tokens) :
        tokens[k].kind = "Markup" =>
            LET a == ArgumentStart(k + 1)
                e == ArgumentEnd(a)
                n == Cardinality(CommandsBetween(k, a))
            IN  e # 0 =>
                    /\ Len(tokens[a].before) = Len(tokens[k].before) + n + 1
                    /\ \A i \in (Len(tokens[k].before) + 1)..Len(tokens[a].before) :
                          tokens[a].before[i] = [p |-> "MarkupParser", argcount |-> 1]
                    /\ TopOf(tokens[k].before).argcount = 0 =>
                          tokens[e].after = tokens[k].before
                    /\ OneArgumentEnded(tokens[k].before, tokens[e].after)
                    /\ NoPendingMarkup(tokens[k].before) => NoPendingMarkup(tokens[e].after)

(* \markup, two commands of one argument and a word have been read inside a
   music expression, and the word has popped all three markup contexts *)
C19_Witness ==
    /\ status = "done"
    /\ \E k \in 1..Len(tokens) :
          /\ tokens[k].kind = "Markup"
          /\ Len(tokens[k].before) > 1
          /\ LET a == ArgumentStart(k + 1) IN
                /\ Cardinality(CommandsBetween(k, a)) = 2
                /\ ArgumentEnd(a) = a
                /\ Len(tokens[a].before) = Len(tokens[k].before) + 3
                /\ tokens[a].after = tokens[k].before

(***************************************************************************)
(* \override and \set: the left-hand side, the = and the value.            *)
(***************************************************************************)
(* the stack after the keyword token k: the stack before it and the
   override or set context, which awaits n arguments *)
OverrideStack(k, n) ==
    Append(tokens[k].before,
           [p |-> IF tokens[k].kind = "Override" THEN "LilyPondParserOverride"
                  ELSE "LilyPondParserSet",
            argcount |-> n])

(* s is the stack o or o with further contexts on it *)
Under(o, s) == Len(s) >= Len(o) /\ SubSeq(s, 1, Len(o)) = o

(* the = tokens after keyword token k that its context has matched *)
EqualSigns(k) ==
    {j \in (k + 1)..Len(tokens) :
        tokens[j].kind = "EqualSignSetOverride" /\ tokens[j].before = OverrideStack(k, 0)}

(* the first of them, or one past the last token when there is none *)
EqualSignOf(k) ==
    IF EqualSigns(k) = {} THEN Len(tokens) + 1
    ELSE CHOOSE j \in EqualSigns(k) : \A i \in EqualSigns(k) : j <= i

(* the first token after token j that is not a blank *)
RECURSIVE SkipSpace(_)
SkipSpace(j) ==
    IF j <= Len(tokens) /\ tokens[j].kind = "Space" THEN SkipSpace(j + 1) ELSE j

(* the token that ends the value starting at token v: the end of a quoted
   string or of a markup expression; 0 when the value is neither or has
   not ended *)
ValueEnd(v) ==
    IF v > Len(tokens) THEN 0
    ELSE IF tokens[v].kind = "StringQuotedStart" /\ Closers(v) # {} THEN Closer(v)
    ELSE IF tokens[v].kind = "Markup" THEN ArgumentEnd(ArgumentStart(v + 1))
    ELSE 0

(***************************************************************************)
(* C20: \override and \set push their context with argcount 0, and it      *)
(* stays on the stack while the left-hand side is read: names, dots and    *)
(* quoted strings that end before the = do not pop it.  The = sets the     *)
(* argcount of the context to 1; the context then stays until the first    *)
(* complete sub-expression after the = (a quoted string, a markup          *)
(* expression) ends, and the token that ends it restores the stack that    *)
(* was there before the keyword.  A bare name after the = ends no          *)
(* sub-expression and pops nothing.                                        *)
(***************************************************************************)
C20_OverrideArgument ==
    \A k \in 1..Len(tokens) :
        tokens[k].kind \in {"Override", "Set"} =>
            LET q == EqualSignOf(k)
                v == SkipSpace(q + 1)
                e == ValueEnd(v)
            IN  /\ tokens[k].after = OverrideStack(k, 0)
                /\ \A j \in (k + 1)..(q - 1) :
                      /\ Under(OverrideStack(k, 0), tokens[j].before)
                      /\ Under(OverrideStack(k, 0), tokens[j].after)
                /\ q <= Len(tokens) =>
                      /\ tokens[q].after = OverrideStack(k, 1)
                      /\ e # 0 =>
                            /\ \A j \in (q + 1)..(e - 1) :
                                  /\ Under(OverrideStack(k, 1), tokens[j].before)
                                  /\ Under(OverrideStack(k, 1), tokens[j].after)
                            /\ tokens[e].after = tokens[k].before
                      /\ (v <= Len(tokens) /\ tokens[v].kind = "Name") =>
                            tokens[v].after = OverrideStack(k, 1)

(* inside a music expression an override has read a left-hand side with a
   name, a dot and a quoted string, then the =, and the end of the value
   has restored the stack before the keyword; the text after the value was
   read by the music context *)
C20_Witness ==
    /\ status = "done"
    /\ \E k \in 1..Len(tokens) :
          /\ tokens[k].kind = "Override"
          /\ Len(tokens[k].before) > 1
          /\ LET q == EqualSignOf(k)
                 e == ValueEnd(SkipSpace(q + 1))
             IN  /\ q <= Len(tokens)
                 /\ \E j \in (k + 1)..(q - 1) : tokens[j].kind = "StringQuotedEnd"
                 /\ \E j \in (k + 1)..(q - 1) : tokens[j].kind = "DotSetOverride"
                 /\ \E j \in (k + 1)..(q - 1) : tokens[j].kind = "Name"
                 /\ e # 0
                 /\ tokens[e].after = tokens[k].before
                 /\ e < Len(tokens)
                 /\ tokens[e + 1].before = tokens[k].before

(***************************************************************************)
(* The suffix of a duration: dots first, scalings second.                  *)
(***************************************************************************)
(* the stack before duration token k with the parser p on it *)
DurationStack(k, p) == Append(tokens[k].before, [p |-> p, argcount |-> 0])

(* the tokens after duration token k that are matched at the depth that
   held before k, or below it *)
Followers(k) ==
    {j \in (k + 1)..Len(tokens) : Len(tokens[j].before) <= Len(tokens[k].before)}

(* the first token after the suffix of duration token k, or one past the
   last token when the text ends in the suffix *)
Follower(k) ==
    IF Followers(k) = {} THEN Len(tokens) + 1
    ELSE CHOOSE j \in Followers(k) : \A i \in Followers(k) : j <= i

(* token j is read in the dot phase, in the scaling phase of duration k *)
InDotPhase(k, j) == Under(DurationStack(k, "DurationParser"), tokens[j].before)

InScalingPhase(k, j) ==
    Under(DurationStack(k, "DurationScalingParser"), tokens[j].before)

(* the text at token j is a scaling: * and, after blanks, a digit *)
AtScaling(j) ==
    /\ StartsWith(j, "*")
    /\ At(text, AfterBlanks(text, tokens[j].pos + 1)) \in {"2", "4"}

(***************************************************************************)
(* C21: a duration suffix is read in two ordered phases.  DurationStart    *)
(* pushes the duration context, which matches only blanks, comments and    *)
(* Dot tokens; on other text it is replaced, without a token, by the       *)
(* scaling context, which matches only blanks, comments and Scaling        *)
(* tokens; on other text that context is popped.  No token of the suffix   *)
(* is read in the dot phase after one read in the scaling phase, no Dot    *)
(* follows a Scaling of the same duration, the suffix goes as far as the   *)
(* two phases accept text, and the token after the suffix is matched with  *)
(* the stack that held before DurationStart.                               *)
(***************************************************************************)
C21_DurationPhases ==
    \A k \in 1..Len(tokens) :
        tokens[k].kind = "DurationStart" =>
            LET f == Follower(k) IN
            /\ tokens[k].after = DurationStack(k, "DurationParser")
            /\ \A j \in (k + 1)..(f - 1) :
                  /\ InDotPhase(k, j) \/ InScalingPhase(k, j)
                  /\ tokens[j].before = DurationStack(k, "DurationParser") =>
                        /\ tokens[j].kind \in
                              {"Space", "BlockCommentStart", "LineComment", "Dot"}
                        /\ tokens[j].kind = "Dot" => tokens[j].after = tokens[j].before
                  /\ tokens[j].before = DurationStack(k, "DurationScalingParser") =>
                        /\ tokens[j].kind \in
                              {"Space", "BlockCommentStart", "LineComment", "Scaling"}
                        /\ tokens[j].kind = "Scaling" => tokens[j].after = tokens[j].before
                  /\ tokens[j].kind = "Dot" =>
                        \A i \in (k + 1)..(j - 1) : tokens[i].kind # "Scaling"
                  /\ InDotPhase(k, j) =>
                        \A i \in (k + 1)..(j - 1) : InDotPhase(k, i)
            /\ f <= Len(tokens) =>
                  /\ tokens[f].before = tokens[k].before
                  /\ tokens[f].kind \notin {"Dot", "Scaling"}
                  /\ ~StartsWith(f, "sp") /\ ~StartsWith(f, "%{") /\ ~AtScaling(f)
                  /\ StartsWith(f, ".") =>
                        \E i \in (k + 1)..(f - 1) : InScalingPhase(k, i)

(* one duration has had dots, a comment and scalings, each phase with
   blanks; the dot after the scalings ended the suffix and was matched by
   the music context, at the stack that held before the duration *)
C21_Witness ==
    /\ status = "done"
    /\ \E k \in 1..Len(tokens) :
          /\ tokens[k].kind = "DurationStart"
          /\ LET f == Follower(k) IN
                /\ f <= Len(tokens)
                /\ StartsWith(f, ".")
                /\ tokens[f].before = tokens[k].before
                /\ Cardinality({j \in (k + 1)..(f - 1) : tokens[j].kind = "Dot"}) = 2
                /\ Cardinality({j \in (k + 1)..(f - 1) : tokens[j].kind = "Scaling"}) = 2
                /\ \E j \in (k + 1)..(f - 1) :
                      tokens[j].kind = "BlockCommentStart" /\ InDotPhase(k, j)
                /\ \E j \in (k + 1)..(f - 1) :
                      tokens[j].kind = "Space" /\ InScalingPhase(k, j)

(***************************************************************************)
(* Chords: < and >, and what the chord context catches as an error.        *)
(***************************************************************************)
(* the atom after the first atom of token j's text *)
SecondAtom(j) == At(text, tokens[j].pos + 2)

(* the text at token j is an articulation shorthand, << or >>, or a
   backslash and one of \ ] [ ( ) *)
AtChordError(j) ==
    \/ /\ \E a \in {"-", "_", "^"} : StartsWith(j, a)
       /\ SecondAtom(j) \in {"_", ".", ">", "|", "+", "^", "-"}
    \/ StartsWith(j, "<") /\ SecondAtom(j) = "<"
    \/ StartsWith(j, ">") /\ SecondAtom(j) = ">"
    \/ StartsWith(j, "\\") /\ SecondAtom(j) \in {"\\", "]", "[", "(", ")"}

InChord(j) == Context(j) = "LilyPondParserChord"

(***************************************************************************)
(* C22: a single < in a music context pushes the chord context, while <<   *)
(* there opens a simultaneous group.  In the chord context the error kind  *)
(* comes before every other candidate: an articulation shorthand, <<, >>   *)
(* and a backslashed slur or beam mark are error tokens that leave the     *)
(* stack unchanged, and a single > is ChordEnd and pops exactly the chord  *)
(* context.                                                                *)
(***************************************************************************)
C22_Chord ==
    \A k \in 1..Len(tokens) :
        /\ (Context(k) \in MusicParsers /\ StartsWith(k, "<")) =>
              IF SecondAtom(k) = "<"
              THEN /\ tokens[k].kind = "SimultaneousStart"
                   /\ tokens[k].after =
                         Append(tokens[k].before,
                                [p |-> "LilyPondParserMusic", argcount |-> 0])
              ELSE /\ tokens[k].kind = "ChordStart"
                   /\ tokens[k].after =
                         Append(tokens[k].before,
                                [p |-> "LilyPondParserChord", argcount |-> 0])
        /\ tokens[k].kind = "ErrorInChord" => InChord(k)
        /\ (InChord(k) /\ AtChordError(k)) =>
              /\ tokens[k].kind = "ErrorInChord"
              /\ tokens[k].len = 2
              /\ tokens[k].after = tokens[k].before
        /\ (InChord(k) /\ StartsWith(k, ">") /\ SecondAtom(k) # ">") =>
              /\ tokens[k].kind = "ChordEnd"
              /\ tokens[k].after = SubSeq(tokens[k].before, 1, Len(tokens[k].before) - 1)
              /\ TopOf(tokens[k].before).p = "LilyPondParserChord"

(* in one music expression a chord has caught an articulation shorthand,
   <<, >>, \( and \\ as errors, a chord inside it and the chord itself were
   ended by single >, and afterwards << opened a simultaneous group *)
C22_Witness ==
    /\ status = "done"
    /\ \A a \in {"-", "<", ">", "\\"} :
          \E k \in 1..Len(tokens) :
              tokens[k].kind = "ErrorInChord" /\ StartsWith(k, a)
    /\ \E k \in 1..Len(tokens) :
          /\ tokens[k].kind = "ErrorInChord" /\ StartsWith(k, "\\") /\ SecondAtom(k) = "\\"
    /\ \E k, j \in 1..Len(tokens) :
          /\ k < j
          /\ tokens[k].kind = "ChordEnd" /\ Len(tokens[k].before) = 4
          /\ tokens[j].kind = "ChordEnd" /\ Len(tokens[j].before) = 3
          /\ \E i \in (j + 1)..Len(tokens) :
                tokens[i].kind = "SimultaneousStart" /\ Len(tokens[i].before) = 2

(***************************************************************************)
(* \score as the argument of a markup context.                             *)
(***************************************************************************)
InMarkup(j) == Context(j) = "MarkupParser"

(* the Markup token whose argument, after commands of one argument, starts
   at token k; 0 when there is none *)
MarkupOf(k) ==
    LET us == {u \in 1..(k - 1) :
                  tokens[u].kind = "Markup" /\ ArgumentStart(u + 1) = k}
    IN  IF us = {} THEN 0 ELSE CHOOSE u \in us : \A w \in us : w <= u

(***************************************************************************)
(* C23: in a markup context \score is a MarkupScore, not a MarkupCommand:  *)
(* it pushes the expect-score context and no markup context.  The { that   *)
(* follows replaces that context by the score body, and the } that closes  *)
(* the score block pops the body and ends the pending argument of the      *)
(* enclosing markup context: after \markup \score { } the stack equals the *)
(* stack before \markup.                                                   *)
(***************************************************************************)
C23_MarkupScore ==
    \A k \in 1..Len(tokens) :
        (InMarkup(k) /\ StartsWith(k, "\\score")) =>
            /\ tokens[k].kind = "MarkupScore"
            /\ tokens[k].after =
                  Append(tokens[k].before,
                         [p |-> "LilyPondParserExpectScore", argcount |-> 0])
            /\ BodyOpeners(k) # {} =>
                  LET o == BodyOpener(k)
                      u == MarkupOf(k)
                  IN  /\ tokens[o].kind = "OpenBracket"
                      /\ tokens[o].after =
                            Append(tokens[k].before,
                                   [p |-> "LilyPondParserScore", argcount |-> 0])
                      /\ Closers(o) # {} =>
                            /\ tokens[Closer(o)].kind = "CloseBracket"
                            /\ tokens[Closer(o)].before = tokens[o].after
                            /\ OneArgumentEnded(tokens[k].before, tokens[Closer(o)].after)
                            /\ (u # 0 /\ TopOf(tokens[u].before).argcount = 0) =>
                                  tokens[Closer(o)].after = tokens[u].before

(* inside a music expression \markup \bold \score { ... } has been read:
   the score block held a music group, and its } restored the stack that
   was there before \markup, popping the body and two markup contexts *)
C23_Witness ==
    /\ status = "done"
    /\ \E k \in 1..Len(tokens) :
          /\ tokens[k].kind = "MarkupScore"
          /\ BodyOpeners(k) # {}
          /\ MarkupOf(k) # 0
          /\ LET o == BodyOpener(k)
                 u == MarkupOf(k)
             IN  /\ Len(tokens[u].before) = 2
                 /\ Len(tokens[k].before) = 4
                 /\ Closers(o) # {}
                 /\ Closer(o) > o + 2
                 /\ tokens[Closer(o)].after = tokens[u].before

====
